---- MODULE Spec2Model ----
(***************************************************************************)
(* A model of Pypeline: activities stored as files under a shared root,    *)
(* Orchestrators (one per worker) that bootstrap, track and dispatch them, *)
(* and pool tasks (process_activity) that move them through the state      *)
(* directories.                                                            *)
(*                                                                         *)
(* Time is the wall clock in whole seconds.  The file system is the set of *)
(* activity files and the set of attached (log) files.  A pool task works  *)
(* on a pickled copy of the Orchestrator's TrackedActivity, so the two     *)
(* handles evolve separately.  One iteration of the main loop is one step; *)
(* so is one call of a TrackedActivity method by a pool task, except the   *)
(* change_state(IN_PROGRESS) that takes the activity, whose                *)
(* resynchronisation and renames are two steps.                            *)
(***************************************************************************)
EXTENDS Integers, Sequences, FiniteSets, TLC

\* ------------------------------------------------------------------ bounds
\* last instant of the modelled clock
MaxTime == 10
\* seconds by which one Tick advances the clock
TickStep == 10
\* number of activity files created over a run (bootstrap, processors, hook)
MaxCreated == 2
\* number of submissions to the pools over a run
MaxTasks == 2
\* highest retries value a file name reaches
MaxRetries == 1

\* ------------------------------------------------------- program constants
\* mark_as_scheduled_for_processing: time() + 10.0
ScheduleDelay == 10
\* Orchestrator.PROCESS_POOL_SIZE_DEFAULT
PROCESS_POOL_SIZE_DEFAULT == 2
\* creation_time has minute precision (CREATION_TIME_FORMAT)
SecondsPerMinute == 60
\* retry_time: datetime | None
NoTime == -1

\* ActivityState
TO_BE_PROCESSED == "TO_BE_PROCESSED"
IN_PROGRESS == "IN_PROGRESS"
PROCESSED == "PROCESSED"
ERROR == "ERROR"
IGNORED == "IGNORED"
ActivityState == {TO_BE_PROCESSED, IN_PROGRESS, PROCESSED, ERROR, IGNORED}

\* ExitStatus
SUCCESS == "SUCCESS"
DECLINED == "DECLINED"
ERROR_RETRY == "ERROR_RETRY"
ERROR_ABANDON == "ERROR_ABANDON"

\* PropertiesManager.RELOAD_COOLDOWN_MS_DEFAULT
RELOAD_COOLDOWN_MS_DEFAULT == 5000

\* OrchestratorReturnCode
EXIT_OK == 0
RELOAD == 2

\* ---------------------------------------------------------- configuration
\* the workers sharing the root
Workers == {"w1", "w2"}
\* activity types; "A" is bootstrapped, "B" is minted by processors and by
\* the error hook
Types == {"A", "B"}
\* the ids random_base32 may return
Ids == {"X", "Y"}
\* retry_delay_s values a processor passes to ExitState.retry
RetryDelays == {0, TickStep}

VARIABLES
    orchestrators, \* the workers whose Orchestrator runs
    now,        \* the wall clock (seconds)
    files,      \* the activity files under the root
    logs,       \* the attached files under the root
    rules,      \* [worker -> its list of ActivityBootstrapRule]
    tracked,    \* [worker -> Orchestrator.tracked_activities, in dict order]
    tasks,      \* the submissions the pools have not finished with, in order
    created,    \* number of activity files written so far
    submit_count,  \* number of submissions to the pools so far
    source_files,  \* the configuration files: [properties, bootstrap], each with its mtime
    properties_manager,  \* [worker -> its PropertiesManager]
    last_read,     \* [worker -> last_read of its activity_bootstrap_rules]
    return_code,   \* [worker -> how run() ended and with what code]
    returned       \* what the last lookup in a table or in the properties gave

vars == <<orchestrators, now, files, logs, rules, tracked, tasks, created, submit_count,
          source_files, properties_manager, last_read, return_code, returned>>

\* ------------------------------------------------------------- Activity
\* An activity file is the record of what its path encodes (type,
\* creation_time, id, retries, retry_time in the name, state as the
\* directory) plus its contents (data).
PathOf(f) ==
    [type |-> f.type, ctime |-> f.ctime, id |-> f.id, retries |-> f.retries,
     rtime |-> f.rtime, state |-> f.state]

unique_key(p) == [type |-> p.type, ctime |-> p.ctime, id |-> p.id]

is_file(p, fs) == \E f \in fs : PathOf(f) = p

read_text(p, fs) == (CHOOSE f \in fs : PathOf(f) = p).data

WithData(p, d) ==
    [type |-> p.type, ctime |-> p.ctime, id |-> p.id, retries |-> p.retries,
     rtime |-> p.rtime, state |-> p.state, data |-> d]

\* Path.rename on a POSIX file system: the file at p is at q afterwards and
\* whatever was at q is replaced; renaming a file onto itself changes nothing.
rename(p, q, fs) ==
    {g \in fs : PathOf(g) # p /\ PathOf(g) # q} \cup {WithData(q, read_text(p, fs))}

\* Activity.creation_time: the clock at minute precision
CreationTime(t) == t \div SecondsPerMinute

\* An Activity value, as Activity.__init__ is handed it: creation_time and
\* retry_time are times of the clock (seconds)
Activity(activity_type, creation_time, activity_id, retries, retry_time, state, data) ==
    [activity_type |-> activity_type, creation_time |-> creation_time,
     activity_id |-> activity_id, retries |-> retries, retry_time |-> retry_time,
     state |-> state, data |-> data]

\* strftime and strptime with CREATION_TIME_FORMAT (%Y-%m-%dT%H-%M): the
\* text is the minute, and the time read from it the start of that minute
strftime_creation_time(t) == CreationTime(t)
strptime_creation_time(text) == text * SecondsPerMinute

\* the path Activity.write_file writes to: state directory and file_name()
file_name(activity) ==
    [type |-> activity.activity_type, ctime |-> strftime_creation_time(activity.creation_time),
     id |-> activity.activity_id, retries |-> activity.retries, rtime |-> activity.retry_time,
     state |-> activity.state]

\* Activity.write_file: [status, path, files]
write_file(activity, fs) ==
    IF is_file(file_name(activity), fs)
    THEN [status |-> "FileExistsError", path |-> file_name(activity), files |-> fs]
    ELSE [status |-> "ok", path |-> file_name(activity),
          files |-> fs \cup {WithData(file_name(activity), activity.data)}]

\* Activity.from_file: the groups of FILE_NAME_PATTERN in the name, the
\* name of the directory, the text of the file
from_file(p, fs) ==
    Activity(p.type, strptime_creation_time(p.ctime), p.id, p.retries, p.rtime, p.state,
             read_text(p, fs))

\* An attached file: <unique_key>_<stem_suffix>[ (n)].log in a state directory
LogKey(l) == [type |-> l.type, ctime |-> l.ctime, id |-> l.id]

LogIn(l, dir) == [l EXCEPT !.state = dir]

Range(s) == {s[i] : i \in DOMAIN s}

\* the orders in which a directory walk may yield the members of S
Orders(S) ==
    {o \in [1..Cardinality(S) -> S] : \A i, j \in 1..Cardinality(S) : i # j => o[i] # o[j]}

\* ------------------------------------------------------ TrackedActivity
\* TrackedActivity.__init__
TrackedActivity(p) == [file |-> p, key |-> unique_key(p), att |-> <<>>, delay |-> 0]

\* a resynchronisation that keeps the candidate with the lowest retry count
resync_lowest(h, fs, lg) ==
    IF is_file(h.file, fs)
    THEN {[ok |-> TRUE, h |-> h]}
    ELSE LET candidate_activities == {PathOf(f) : f \in {g \in fs : unique_key(g) = h.key}}
             best == {c \in candidate_activities :
                        \A d \in candidate_activities : c.retries <= d.retries}
         IN  IF candidate_activities = {}
             THEN {[ok |-> FALSE, h |-> h]}
             ELSE {[ok |-> TRUE, h |-> [h EXCEPT !.file = c]] : c \in best}

\* TrackedActivity.__resynchronise: the outcomes [ok, h]; ok = FALSE is the
\* FileNotFoundError ("Lost track of activity").  max() keeps the first of
\* the candidates with the highest retry count in the order rglob yields them.
resynchronise(h, fs, lg) ==
    IF is_file(h.file, fs)
    THEN {[ok |-> TRUE, h |-> h]}
    ELSE LET candidate_activities == {PathOf(f) : f \in {g \in fs : unique_key(g) = h.key}}
             best == {c \in candidate_activities :
                        \A d \in candidate_activities : d.retries <= c.retries}
             lost == {l \in lg : LogKey(l) = h.key /\ l \notin Range(h.att)}
         IN  IF candidate_activities = {}
             THEN {[ok |-> FALSE, h |-> h]}
             ELSE {[ok |-> TRUE, h |-> [h EXCEPT !.file = c, !.att = h.att \o o]] :
                      c \in best, o \in Orders(lost)}

\* the list comprehension of change_state: rename the attached files in list
\* order; the first missing one raises FileNotFoundError and ends the loop
RECURSIVE rename_attached(_, _, _, _, _)
rename_attached(att, i, dest, lg, done) ==
    IF i > Len(att)
    THEN [ok |-> TRUE, logs |-> lg, att |-> done]
    ELSE IF att[i] \notin lg
         THEN [ok |-> FALSE, logs |-> lg, att |-> att]
         ELSE rename_attached(att, i + 1, dest,
                              (lg \ {att[i]}) \cup {LogIn(att[i], dest)},
                              Append(done, LogIn(att[i], dest)))

\* TrackedActivity.change_state after its resynchronisation: the renames.
\* ret = FALSE is the None the caller gets ("ownership and state change
\* failed"); activity_file is assigned before the attached files are renamed.
change_state_rename(h, dest, fs, lg) ==
    LET target_file == [h.file EXCEPT !.state = dest]
    IN  IF ~is_file(h.file, fs)
        THEN [ret |-> FALSE, h |-> h, files |-> fs, logs |-> lg]
        ELSE LET r == rename_attached(h.att, 1, dest, lg, <<>>)
             IN  [ret |-> r.ok,
                  h |-> [h EXCEPT !.file = target_file, !.att = r.att],
                  files |-> rename(h.file, target_file, fs),
                  logs |-> r.logs]

\* already_scheduled_for_processing, were the mark of the last submission
\* not looked at
retry_time_ahead(h, t) == h.file.rtime # NoTime /\ h.file.rtime > t

\* already_scheduled_for_processing, were the retry time of the file name
\* not looked at
marked_as_scheduled(h, t) == h.delay > 0 /\ h.delay > t

\* TrackedActivity.already_scheduled_for_processing after its resynchronisation
already_scheduled_for_processing(h, t) ==
    (h.delay > 0 /\ h.delay > t) \/ (h.file.rtime # NoTime /\ h.file.rtime > t)

\* TrackedActivity.mark_as_scheduled_for_processing
mark_as_scheduled_for_processing(h, t) == [h EXCEPT !.delay = t + ScheduleDelay]

\* TrackedActivity.set_retry after its resynchronisation: [h, files]
set_retry(h, retry_delay_s, t, fs) ==
    LET renamed == [h.file EXCEPT !.retries = @ + 1,
                                  !.rtime = IF retry_delay_s > 0 THEN t + retry_delay_s ELSE @]
    IN  [h |-> [h EXCEPT !.file = renamed,
                         !.delay = IF retry_delay_s > 0 THEN t + retry_delay_s ELSE @],
         files |-> rename(h.file, renamed, fs)]

\* find_available_path: the first unused <stem>[ (n)].log of the directory
RECURSIVE find_available_path(_, _, _, _, _)
find_available_path(dir, key, stamp, n, lg) ==
    LET l == [type |-> key.type, ctime |-> key.ctime, id |-> key.id,
              stamp |-> stamp, n |-> n, state |-> dir]
    IN  IF l \in lg THEN find_available_path(dir, key, stamp, n + 1, lg) ELSE l

\* TrackedActivity.attach_file after its resynchronisation: the path
attach_file(h, stamp, lg) == find_available_path(h.file.state, h.key, stamp, 0, lg)

\* TrackedActivity.remove after its resynchronisation: [files, logs]
remove(h, fs, lg) ==
    [files |-> {f \in fs : PathOf(f) # h.file}, logs |-> lg \ Range(h.att)]

\* ------------------------------------------------------ ActivityCreator
\* Processor.OUTPUT_ACTIVITY_TYPES by processor, the processor being named
\* after the type it handles (allowed_activity_type_to_create_by_processor_name)
OUTPUT_ACTIVITY_TYPES(processor) == IF processor = "A" THEN {"A", "B"} ELSE {}

\* from_processor is None
NoProcessor == "None"

\* the ids a loop that never looked at reserved_ids would leave with
MintedIds_unreserved(reserved_ids, n) ==
    {ids \in [1..n -> Ids] : \A i, j \in 1..n : i # j => ids[i] # ids[j]}

\* the ids the loop `while (activity_id := random_base32(3)) in _reserved_ids`
\* may leave with for n payloads: any n distinct ids outside reserved_ids
MintedIds(reserved_ids, n) ==
    {ids \in [1..n -> Ids \ reserved_ids] : \A i, j \in 1..n : i # j => ids[i] # ids[j]}

\* the Activity create_activities builds for one payload
NewActivity(activity_type, activity_data, activity_id, current_time, start_delay_s) ==
    [type |-> activity_type, ctime |-> CreationTime(current_time), id |-> activity_id,
     retries |-> 0,
     rtime |-> IF start_delay_s = 0 THEN NoTime ELSE current_time + start_delay_s,
     state |-> TO_BE_PROCESSED, data |-> activity_data]

\* Activity.write_file for the payloads from index i on: FileExistsError when
\* the target exists, the files written before it staying written
RECURSIVE write_files(_, _, _, _, _, _, _)
write_files(activity_type, activities_data, ids, i, current_time, start_delay_s, fs) ==
    IF i > Len(activities_data)
    THEN [status |-> "ok", files |-> fs]
    ELSE LET activity == NewActivity(activity_type, activities_data[i], ids[i],
                                     current_time, start_delay_s)
         IN  IF is_file(PathOf(activity), fs)
             THEN [status |-> "FileExistsError", files |-> fs]
             ELSE write_files(activity_type, activities_data, ids, i + 1, current_time,
                              start_delay_s, fs \cup {activity})

\* create_activities without the test of the declared output activity types
create_activities_unchecked(activity_type, activities_data, from_processor, current_time, ids, start_delay_s, fs) ==
    write_files(activity_type, activities_data, ids, 1, current_time, start_delay_s, fs)

\* ActivityCreator.create_activities, ids being the ids it minted
create_activities(activity_type, activities_data, from_processor, current_time, ids, start_delay_s, fs) ==
    IF from_processor # NoProcessor /\ activity_type \notin OUTPUT_ACTIVITY_TYPES(from_processor)
    THEN [status |-> "TypeError", files |-> fs]
    ELSE write_files(activity_type, activities_data, ids, 1, current_time, start_delay_s, fs)

\* --------------------------------------------------- TimedExecutionRule
\* simple_frequency_next_datetime_generator of `@every N{m|h}`, delta in seconds
simple_frequency_next_datetime_generator(last_execution, delta) == last_execution + delta

\* TimedExecutionRule.is_up
is_up(rule, current_time) == current_time >= rule.next_execution

\* A rule expression, by what the two patterns find in it: `@every N{m|h}`,
\* or a text neither pattern matches
Every(count, unit) == [grammar |-> "@every", count |-> count, unit |-> unit]
Undecodable == [grammar |-> "text"]

\* no rule: what a parser returns for an expression that is not its own
NoRule == [grammar |-> "None"]

\* TimeResolution: the number of values of a cronlite field
TimeResolution == [MINUTE |-> 60, HOUR |-> 24, DAY |-> 7]

\* timedelta(minutes=1), timedelta(hours=1) and timedelta(days=1), in seconds
SecondsOf ==
    [MINUTE |-> SecondsPerMinute,
     HOUR |-> SecondsPerMinute * TimeResolution.MINUTE,
     DAY |-> SecondsPerMinute * TimeResolution.MINUTE * TimeResolution.HOUR]

\* a timedelta that takes every unit for minutes
timedelta_minutes(unit, count) == count * SecondsOf.MINUTE

\* SIMPLE_FREQUENCY_MACRO_SUFFIX_MAPPER, a timedelta in seconds
timedelta(unit, count) ==
    IF unit = "m" THEN count * SecondsOf.MINUTE ELSE count * SecondsOf.HOUR

\* TimedExecutionRule.__from_simple_frequency_macro at time t: __init__
\* asks the generator for next_execution with no last execution
from_simple_frequency_macro(expression, t) ==
    IF expression.grammar # "@every"
    THEN NoRule
    ELSE [grammar |-> "@every", delta |-> timedelta(expression.unit, expression.count),
          next_execution |-> t]

\* A cronlite expression `MIN HOUR DAY`, each field `*` or the values written
Star == [star |-> TRUE, values |-> {}]
Values(S) == [star |-> FALSE, values |-> S]
Cronlite(min, hour, day) == [grammar |-> "cronlite", min |-> min, hour |-> hour, day |-> day]

\* what CRON_LITE_STYLE_RULE_PATTERN admits in a field: minutes 0..59,
\* hours 0..24, days 0..6
PatternAdmits(field, highest) == field.star \/ (field.values # {} /\ field.values \subseteq 0..highest)
CRON_LITE_STYLE_RULE_PATTERN(expression) ==
    /\ expression.grammar = "cronlite"
    /\ PatternAdmits(expression.min, 59)
    /\ PatternAdmits(expression.hour, 24)
    /\ PatternAdmits(expression.day, 6)

\* parse_cronlite_part: the values of a field; illegal values are logged
\* and returned with the others
parse_cronlite_part(field, time_resolution) ==
    IF field.star THEN 0..(time_resolution - 1) ELSE field.values

\* A time is a number of seconds since a Sunday at 00:00:00.
\* datetime_to_cron_day, datetime.hour, datetime.minute
datetime_to_cron_day(t) == (t \div SecondsOf.DAY) % TimeResolution.DAY
hour(t) == (t \div SecondsOf.HOUR) % TimeResolution.HOUR
minute(t) == (t \div SecondsOf.MINUTE) % TimeResolution.MINUTE

\* clone_datetime(_time, resolution): the start of the day, of the hour
clone_datetime(t, seconds) == t - (t % seconds)

\* the least element of a non-empty set of numbers
Min(S) == CHOOSE x \in S : \A y \in S : x <= y

\* time_to_wait, in units of the field
time_to_wait(current_value, valid_values, time_resolution) ==
    Min({(v - current_value + time_resolution) % time_resolution : v \in valid_values})

\* the number of passes of the loop of cronlite_next_datetime_generator
\* that are followed
MaxAdvance == 12

\* one pass of the loop of cronlite_next_datetime_generator that does not
\* return: next_time moved to the next valid day, hour or minute
advance(mins, hours, days, next_time) ==
    IF datetime_to_cron_day(next_time) \notin days
    THEN clone_datetime(next_time, SecondsOf.DAY)
         + time_to_wait(datetime_to_cron_day(next_time), days, TimeResolution.DAY)
           * SecondsOf.DAY
    ELSE IF hour(next_time) \notin hours
    THEN clone_datetime(next_time, SecondsOf.HOUR)
         + time_to_wait(hour(next_time), hours, TimeResolution.HOUR) * SecondsOf.HOUR
    ELSE next_time
         + time_to_wait(minute(next_time), mins, TimeResolution.MINUTE) * SecondsOf.MINUTE

\* the `while True` of cronlite_next_datetime_generator from next_time:
\* [status, time], status "loops" when a pass leaves next_time as it was
\* (every later pass then does the same)
RECURSIVE cronlite_loop(_, _, _, _, _)
cronlite_loop(mins, hours, days, next_time, fuel) ==
    IF /\ datetime_to_cron_day(next_time) \in days
       /\ hour(next_time) \in hours
       /\ minute(next_time) \in mins
    THEN [status |-> "ok", time |-> next_time]
    ELSE IF advance(mins, hours, days, next_time) = next_time
    THEN [status |-> "loops", time |-> next_time]
    ELSE IF fuel = 0
    THEN [status |-> "fuel", time |-> next_time]
    ELSE cronlite_loop(mins, hours, days, advance(mins, hours, days, next_time), fuel - 1)

\* the generator, were its first result too searched from one minute later
cronlite_next_minute_generator(rule, last_execution, current_time) ==
    cronlite_loop(rule.mins, rule.hours, rule.days,
                  (IF last_execution = NoTime THEN current_time ELSE last_execution)
                  + SecondsOf.MINUTE,
                  MaxAdvance)

\* cronlite_next_datetime_generator, last_execution being NoTime for None
cronlite_next_datetime_generator(rule, last_execution, current_time) ==
    cronlite_loop(rule.mins, rule.hours, rule.days,
                  IF last_execution = NoTime THEN current_time
                  ELSE last_execution + SecondsOf.MINUTE,
                  MaxAdvance)

\* TimedExecutionRule.__init__ with the first result of the generator; the
\* rule does not exist when that computation does not end
TimedExecutionRule(rule, first) ==
    IF first.status # "ok"
    THEN [grammar |-> first.status]
    ELSE [next_execution |-> first.time] @@ rule

\* TimedExecutionRule.__from_cronlite at time t
from_cronlite(expression, t) ==
    IF ~CRON_LITE_STYLE_RULE_PATTERN(expression)
    THEN NoRule
    ELSE LET _mins == parse_cronlite_part(expression.min, TimeResolution.MINUTE)
             _hours == parse_cronlite_part(expression.hour, TimeResolution.HOUR)
             _days == parse_cronlite_part(expression.day, TimeResolution.DAY)
             rule == [grammar |-> "cronlite", mins |-> _mins, hours |-> _hours,
                      days |-> _days]
         IN  IF _mins = {} \/ _hours = {} \/ _days = {}
             THEN NoRule
             ELSE TimedExecutionRule(rule, cronlite_next_datetime_generator(rule, NoTime, t))

\* TimedExecutionRule.from_expression at time t: the first parser that
\* returns a rule
FirstRule(res, others) == IF res # NoRule THEN res ELSE others

from_expression(expression, t) ==
    FirstRule(from_simple_frequency_macro(expression, t), from_cronlite(expression, t))

\* TimedExecutionRule.next_datetime_generator of a rule after an execution:
\* [status, time]
next_datetime_generator(rule, last_execution) ==
    IF rule.grammar = "cronlite"
    THEN cronlite_next_datetime_generator(rule, last_execution, last_execution)
    ELSE [status |-> "ok",
          time |-> simple_frequency_next_datetime_generator(last_execution, rule.delta)]

\* TimedExecutionRule.mark_executed, for a rule whose generator returns
mark_executed(rule) ==
    [rule EXCEPT !.next_execution = next_datetime_generator(rule, @).time]

\* ------------------------------------------------ ActivityBootstrapRule
\* ActivityBootstrapRule.__init__, _rule being what from_expression made
\* of the bootstrap rule: [status, rule], ValueError when the expression
\* cannot be decoded
ActivityBootstrapRule(activity_type, _rule, activity_file_contents, fire_on_first_cycle) ==
    IF _rule = NoRule
    THEN [status |-> "ValueError", rule |-> _rule]
    ELSE IF _rule.grammar \in {"loops", "fuel"}
    THEN [status |-> _rule.grammar, rule |-> _rule]
    ELSE [status |-> "ok",
          rule |-> [activity_type |-> activity_type,
                    activity_file_contents |-> activity_file_contents,
                    fire_on_next_cycle |-> fire_on_first_cycle] @@ _rule]

\* ActivityBootstrapRule.apply with the id create_activity mints:
\* [rule, files, status], status "ok" when an activity was created,
\* "none" when none was asked for, else the exception raised
apply(rule, current_time, activity_id, fs) ==
    IF is_up(rule, current_time)
    THEN IF rule.fire_on_next_cycle
         THEN LET r == create_activities(rule.activity_type, <<rule.activity_file_contents>>,
                                         NoProcessor, current_time, <<activity_id>>, 0, fs)
              IN  [rule |-> mark_executed(rule), files |-> r.files, status |-> r.status]
         ELSE [rule |-> [mark_executed(rule) EXCEPT !.fire_on_next_cycle = TRUE],
               files |-> fs, status |-> "none"]
    ELSE [rule |-> rule, files |-> fs, status |-> "none"]

\* ------------------------------------------------------------ RuleEngine
\* A cell of a table is the text written in the file, a sequence of
\* characters; a decoded value is [type, v] with type one of "float", "int",
\* "bool", "str".
LABEL_ACTIVITY_TYPE == "activityType"
LABEL_WORKER_ID == "workerID"
LABEL_PARELLEL_PROCESSES == "parallelProcesses"

Digits == {"0", "1", "2", "3", "4", "5", "6", "7", "8", "9"}
DigitValue ==
    ("0" :> 0) @@ ("1" :> 1) @@ ("2" :> 2) @@ ("3" :> 3) @@ ("4" :> 4) @@ ("5" :> 5)
    @@ ("6" :> 6) @@ ("7" :> 7) @@ ("8" :> 8) @@ ("9" :> 9)

\* \d+
IsDigits(text) == text # <<>> /\ \A i \in DOMAIN text : text[i] \in Digits

\* int() of a text of digits
RECURSIVE int(_)
int(text) ==
    IF text = <<>> THEN 0
    ELSE int(SubSeq(text, 1, Len(text) - 1)) * 10 + DigitValue[text[Len(text)]]

RECURSIVE Power10(_)
Power10(n) == IF n = 0 THEN 1 ELSE 10 * Power10(n - 1)

\* where `\d+\.\d+` finds its dot in a text, 0 when it does not match
DotOf(text) ==
    LET dots == {k \in DOMAIN text : /\ text[k] = "."
                                     /\ IsDigits(SubSeq(text, 1, k - 1))
                                     /\ IsDigits(SubSeq(text, k + 1, Len(text)))}
    IN  IF dots = {} THEN 0 ELSE CHOOSE k \in dots : TRUE

\* float() of a text `\d+\.\d+` with its dot at k: the number num / den
float(text, k) ==
    [num |-> int(SubSeq(text, 1, k - 1) \o SubSeq(text, k + 1, Len(text))),
     den |-> Power10(Len(text) - k)]

\* str.lower on the letters of `true` and `false`
LowerCase ==
    ("T" :> "t") @@ ("R" :> "r") @@ ("U" :> "u") @@ ("E" :> "e") @@ ("F" :> "f")
    @@ ("A" :> "a") @@ ("L" :> "l") @@ ("S" :> "s")
lower(text) ==
    [i \in DOMAIN text |-> IF text[i] \in DOMAIN LowerCase THEN LowerCase[text[i]] ELSE text[i]]

DECODE_BOOL(text) == lower(text) = <<"t", "r", "u", "e">>

\* RuleEngineValuePattern.fullmatch(value).lastindex: the first alternative
\* of (\d+\.\d+)|(\d+)|(true)|(false)|(.*), case ignored, that matches
RuleEngineValuePattern(value) ==
    IF DotOf(value) # 0 THEN 1
    ELSE IF IsDigits(value) THEN 2
    ELSE IF lower(value) = <<"t", "r", "u", "e">> THEN 3
    ELSE IF lower(value) = <<"f", "a", "l", "s", "e">> THEN 4
    ELSE 5

\* RuleEngine.decode_cell
decode_cell(value) ==
    LET lastindex == RuleEngineValuePattern(value)
    IN  IF lastindex = 1 THEN [type |-> "float", v |-> float(value, DotOf(value))]
        ELSE IF lastindex = 2 THEN [type |-> "int", v |-> int(value)]
        ELSE IF lastindex \in {3, 4} THEN [type |-> "bool", v |-> DECODE_BOOL(value)]
        ELSE [type |-> "str", v |-> value]

\* `==` of Python on decoded values: a str equals a str of the same text;
\* float, int and bool (True is 1, False is 0) are compared as numbers
Number(x) ==
    IF x.type = "float" THEN x.v
    ELSE IF x.type = "int" THEN [num |-> x.v, den |-> 1]
    ELSE [num |-> IF x.v THEN 1 ELSE 0, den |-> 1]
equals(x, y) ==
    IF x.type = "str" \/ y.type = "str"
    THEN x.type = y.type /\ x.v = y.v
    ELSE Number(x).num * Number(y).den = Number(y).num * Number(x).den

UNIVERSAL_VALUE == <<"*">>

\* RuleEngine.row_matches_criterias: every key of the criteria is looked at
RECURSIVE row_matches_loop(_, _, _, _)
row_matches_loop(row, criteria, keys, _matches) ==
    IF keys = {}
    THEN _matches
    ELSE LET k == CHOOSE key \in keys : TRUE
         IN  row_matches_loop(row, criteria, keys \ {k},
                              IF row[k] = UNIVERSAL_VALUE THEN _matches
                              ELSE IF equals(decode_cell(row[k]), criteria[k]) THEN _matches
                              ELSE FALSE)
row_matches_criterias(row, criteria) == row_matches_loop(row, criteria, DOMAIN criteria, TRUE)

\* the exception of a lookup that matched no row
NoRuleMatchError == [how |-> "NoRuleMatchError"]

\* RuleEngine.get_mappings: the columns asked for, decoded, of the matching
\* rows in file order
DecodedRow(row, values) == [k \in values |-> decode_cell(row[k])]
RECURSIVE matching_rows(_, _, _)
matching_rows(_rows, criteria, values) ==
    IF _rows = <<>>
    THEN <<>>
    ELSE (IF row_matches_criterias(Head(_rows), criteria)
          THEN <<DecodedRow(Head(_rows), values)>> ELSE <<>>)
         \o matching_rows(Tail(_rows), criteria, values)
get_mappings_of(res) == IF res = <<>> THEN NoRuleMatchError ELSE [how |-> "return", value |-> res]
get_mappings(_rows, criteria, values) == get_mappings_of(matching_rows(_rows, criteria, values))

\* RuleEngine.get_mapping, were it the first match
get_first_mapping_of(mappings) ==
    IF mappings = NoRuleMatchError THEN mappings
    ELSE [how |-> "return", value |-> mappings.value[1]]

\* RuleEngine.get_mapping: get_mappings(criteria, values)[-1]
get_mapping_of(mappings) ==
    IF mappings = NoRuleMatchError THEN mappings
    ELSE [how |-> "return", value |-> mappings.value[Len(mappings.value)]]
get_mapping(_rows, criteria, values) == get_mapping_of(get_mappings(_rows, criteria, values))

\* RuleEngine.get_single_mapping
get_single_mapping_of(mapping, value) ==
    IF mapping = NoRuleMatchError THEN mapping
    ELSE [how |-> "return", value |-> mapping.value[value]]
get_single_mapping(_rows, criteria, value) ==
    get_single_mapping_of(get_mapping(_rows, criteria, {value}), value)

\* activity_processing.csv: activityType, workerID, parallelProcesses
ProcessingTable ==
    << [activityType |-> <<"A">>, workerID |-> <<"*">>, parallelProcesses |-> <<"1">>],
       [activityType |-> <<"B">>, workerID |-> <<"w", "1">>, parallelProcesses |-> <<"1">>] >>

\* the str of an activity type or of a worker id
Characters ==
    ("A" :> <<"A">>) @@ ("B" :> <<"B">>) @@ ("w1" :> <<"w", "1">>) @@ ("w2" :> <<"w", "2">>)
str(name) == [type |-> "str", v |-> Characters[name]]

\* ---------------------------------------------------------- Orchestrator
\* Orchestrator.handled_activity_types, by worker
handled_activity_types(w) == IF w = "w1" THEN {"A", "B"} ELSE {"A"}

\* an activity_processing.csv whose row for type B names another worker
\* than the one that handles it: setup_activity_processing_configuration
\* looks for a row of each handled type whatever its worker, and finds one
ProcessingTableOther ==
    << [activityType |-> <<"A">>, workerID |-> <<"*">>, parallelProcesses |-> <<"1">>],
       [activityType |-> <<"B">>, workerID |-> <<"w", "2">>, parallelProcesses |-> <<"1">>] >>

\* the tables an Orchestrator is started on
ProcessingTables == {ProcessingTable, ProcessingTableOther}

\* the lookup of Orchestrator.allowed_parallel_processes in each of the
\* tables, for every activity type and worker id
ParallelProcesses ==
    [table \in ProcessingTables, activity_type \in Types, w \in Workers |->
        get_single_mapping(table,
                           (LABEL_ACTIVITY_TYPE :> str(activity_type)) @@ (LABEL_WORKER_ID :> str(w)),
                           LABEL_PARELLEL_PROCESSES)]
parallel_processes_of(activity_type, w) ==
    ParallelProcesses[source_files.processing.rows, activity_type, w]

\* NoRuleMatchError of allowed_parallel_processes
NoRuleMatch(activity_type, w) == parallel_processes_of(activity_type, w) = NoRuleMatchError

\* Orchestrator.allowed_parallel_processes: get_single_mapping, the last match
allowed_parallel_processes(activity_type, w) == parallel_processes_of(activity_type, w).value.v

\* the keys of Orchestrator.tracked_activities
TrackedIds(tr) == {tr[i].key.id : i \in DOMAIN tr}

\* what resynchronising every handle of a list in turn may leave: each
\* handle resynchronised, those that raised FileNotFoundError dropped
\* (get_tracked_activities' del, resynchronize_tracked_activities' filter)
RECURSIVE resync_all(_, _, _)
resync_all(hs, fs, lg) ==
    IF hs = <<>>
    THEN {<<>>}
    ELSE UNION {{(IF r.ok THEN <<r.h>> ELSE <<>>) \o rest : rest \in resync_all(Tail(hs), fs, lg)} :
                  r \in resynchronise(Head(hs), fs, lg)}

\* Orchestrator.get_untracked_activities(TO_BE_PROCESSED) and the loop that
\* tracks them: the lists of new handles.  The dict comprehension keeps one
\* file per id (the last the glob yields) and the loop drops unhandled types.
NewlyTracked(w, tr, fs) ==
    LET untracked == {f \in fs : f.state = TO_BE_PROCESSED /\ f.id \notin TrackedIds(tr)}
        new_ids == {f.id : f \in untracked}
    IN  {SelectSeq([i \in 1..Cardinality(new_ids) |-> TrackedActivity(PathOf(pick[order[i]]))],
                   LAMBDA h : h.file.type \in handled_activity_types(w)) :
            pick \in {c \in [new_ids -> untracked] : \A i \in new_ids : c[i].id = i},
            order \in Orders(new_ids)}

\* the types of a list of handles in order of first appearance (the keys of
\* tbp_activity_files_by_type)
RECURSIVE TypesInOrder(_, _)
TypesInOrder(hs, seen) ==
    IF hs = <<>>
    THEN <<>>
    ELSE IF Head(hs).file.type \in seen
         THEN TypesInOrder(Tail(hs), seen)
         ELSE <<Head(hs).file.type>> \o TypesInOrder(Tail(hs), seen \cup {Head(hs).file.type})

\* a submission to the pool: the pickled handle and process_activity's position
NoPath == [type |-> "None", ctime |-> 0, id |-> "None", retries |-> 0,
           rtime |-> NoTime, state |-> "None"]

NoHandle == TrackedActivity(NoPath)

NewTask(w, h) ==
    [w |-> w, type |-> h.file.type, h |-> h, pc |-> "queued", start |-> 0]

\* the for loop of process_tbp_activities over the types from index i on:
\* [tracked, submitted, status]; status "NoRuleMatchError" when
\* allowed_parallel_processes raised, which ends the pass
RECURSIVE dispatch(_, _, _, _, _, _, _)
dispatch(w, types, i, group, tr, submitted, t) ==
    IF i > Len(types)
    THEN [tracked |-> tr, submitted |-> submitted, status |-> "ok"]
    ELSE IF NoRuleMatch(types[i], w)
    THEN [tracked |-> tr, submitted |-> submitted, status |-> "NoRuleMatchError"]
    ELSE
    LET _activity_files == SelectSeq(group, LAMBDA h : h.file.type = types[i])
        in_progress == SelectSeq(tr, LAMBDA h : h.file.state = IN_PROGRESS
                                               /\ h.file.type = types[i])
        available_execution_threads ==
            allowed_parallel_processes(types[i], w) - Len(in_progress)
        will_process_now_count ==
            IF Len(_activity_files) < available_execution_threads
            THEN Len(_activity_files) ELSE available_execution_threads
        chosen == IF available_execution_threads <= 0 THEN {}
                  ELSE {_activity_files[k].key.id : k \in 1..will_process_now_count}
        marked == [k \in DOMAIN tr |->
                     IF tr[k].key.id \in chosen
                     THEN mark_as_scheduled_for_processing(tr[k], t) ELSE tr[k]]
    IN  dispatch(w, types, i + 1, group, marked,
                 submitted \o [k \in 1..Cardinality(chosen) |->
                                 NewTask(w, mark_as_scheduled_for_processing(
                                               _activity_files[k], t))],
                 t)

\* -------------------------------------------------------------- ExitState
\* ExitState.success
success(actual_work_was_done) ==
    [status |-> SUCCESS, next_activity_status |-> PROCESSED,
     actual_work_was_done |-> actual_work_was_done, retry_delay_s |-> 0]

\* ExitState.declined
declined(next_activity_status, actual_work_was_done) ==
    [status |-> DECLINED, next_activity_status |-> next_activity_status,
     actual_work_was_done |-> actual_work_was_done, retry_delay_s |-> 0]

\* ExitState.retry
retry(actual_work_was_done, retry_delay_s) ==
    [status |-> ERROR_RETRY, next_activity_status |-> TO_BE_PROCESSED,
     actual_work_was_done |-> actual_work_was_done, retry_delay_s |-> retry_delay_s]

\* ExitState.error
error(actual_work_was_done) ==
    [status |-> ERROR_ABANDON, next_activity_status |-> ERROR,
     actual_work_was_done |-> actual_work_was_done, retry_delay_s |-> 0]

\* ExitState.remove_activity
remove_activity(exit_state) ==
    ~exit_state.actual_work_was_done /\ exit_state.status = SUCCESS

\* the exit states the processors of the model return
ExitStates ==
    {success(TRUE), success(FALSE), declined(TO_BE_PROCESSED, FALSE),
     declined(IGNORED, FALSE), error(TRUE), error(FALSE)}
    \cup {retry(FALSE, d) : d \in RetryDelays}

\* ---------------------------------------------------- PropertiesManager
\* the two flags of the main loop; a property name is the list of its parts
RELOAD_NOW_PPTY == <<"Orchestrator", "reload-now">>
STOP_NOW_PPTY == <<"Orchestrator", "main-loop", "stop-now">>
WILDCARD_PROPERTY_PART == "*"

\* A line of a property file: `key=value` behind `comment` # signs; the
\* text "key=" (no value) does not match PROPERTY_DEFINITION.
PropertyLine(key, value) == [key |-> key, value |-> value, comment |-> 0]

\* Property(value, property_file_idx, line_idx) of the one property file,
\* and the absence of a property
Property(value, line_idx) == [value |-> value, line_idx |-> line_idx]
NoProperty == Property("None", 0)

\* res[key] = property of a dict, which keeps its keys in the order they
\* were first set in: a list of [key, property]
setitem(res, key, property) ==
    IF \E j \in DOMAIN res : res[j].key = key
    THEN [j \in DOMAIN res |-> IF res[j].key = key THEN [res[j] EXCEPT !.property = property]
                               ELSE res[j]]
    ELSE Append(res, [key |-> key, property |-> property])

\* PropertiesManager.read_properties_file from line i on: [status,
\* properties]; a later line with the same key replaces an earlier one, a
\* commented line is empty once its comment is removed, and a line that is
\* not a key-value pair raises ValueError
RECURSIVE read_properties_file(_, _, _)
read_properties_file(lines, i, res) ==
    IF i > Len(lines)
    THEN [status |-> "ok", properties |-> res]
    ELSE IF lines[i].comment > 0
    THEN read_properties_file(lines, i + 1, res)
    ELSE IF lines[i].value = ""
    THEN [status |-> "ValueError", properties |-> res]
    ELSE read_properties_file(lines, i + 1,
                              setitem(res, lines[i].key, Property(lines[i].value, i)))

\* FileDefinedValue.should_reload_data of a file that was read before:
\* last_read is int(time()) and st_mtime keeps the fraction of the second
\* the file was written in
should_reload_data(file_last_read, source_file) == file_last_read <= source_file.mtime

\* PropertiesManager.reload at time t: [status, pm].  The properties are
\* emptied and the file marked read before its lines are parsed.
reload(pm, source_file, t) ==
    IF pm.last_reload_timestamp + RELOAD_COOLDOWN_MS_DEFAULT \div 1000 > t
    THEN [status |-> "ok", pm |-> pm]
    ELSE IF ~should_reload_data(pm.last_read, source_file)
    THEN [status |-> "ok", pm |-> pm]
    ELSE LET r == read_properties_file(source_file.lines, 1, <<>>)
         IN  IF r.status = "ok"
             THEN [status |-> "ok",
                   pm |-> [properties |-> r.properties, last_reload_timestamp |-> t,
                           last_read |-> t]]
             ELSE [status |-> r.status,
                   pm |-> [pm EXCEPT !.properties = <<>>,
                                     !.last_read = t]]

\* the number of wildcard parts of a key
wildcards(c) == Cardinality({i \in DOMAIN c : c[i] = WILDCARD_PROPERTY_PART})

\* max(candidate_props, key=wildcards): the first of those with the most
max(candidate_props) ==
    candidate_props[CHOOSE i \in DOMAIN candidate_props :
                        /\ \A j \in DOMAIN candidate_props :
                              wildcards(candidate_props[j].key) <= wildcards(candidate_props[i].key)
                        /\ \A j \in 1..(i - 1) :
                              wildcards(candidate_props[j].key) < wildcards(candidate_props[i].key)]

\* min(candidate_props, key=wildcards): the first of those with the fewest
min(candidate_props) ==
    candidate_props[CHOOSE i \in DOMAIN candidate_props :
                        /\ \A j \in DOMAIN candidate_props :
                              wildcards(candidate_props[j].key) >= wildcards(candidate_props[i].key)
                        /\ \A j \in 1..(i - 1) :
                              wildcards(candidate_props[j].key) > wildcards(candidate_props[i].key)]

\* the candidates of __resolve_property: the keys, in the order of the
\* dict, with as many parts as the name, each part the name's or the wildcard
candidates(properties, property_name) ==
    SelectSeq(properties,
              LAMBDA c : /\ Len(c.key) = Len(property_name)
                         /\ \A part_idx \in DOMAIN property_name :
                               c.key[part_idx] \in {WILDCARD_PROPERTY_PART,
                                                    property_name[part_idx]})

\* PropertiesManager.__resolve_property of a property that is not required,
\* on the loaded properties
selected_candidate(candidate_props) ==
    IF candidate_props = <<>> THEN NoProperty ELSE min(candidate_props).property
resolve_property(properties, property_name) ==
    selected_candidate(candidates(properties, property_name))

\* PropertiesManager.get_bool on the loaded properties
bool_of(ppty, default) == IF ppty = NoProperty THEN default ELSE ppty.value = "true"
get_bool(properties, name, default) == bool_of(resolve_property(properties, name), default)

\* the edit of PropertiesManager.comment_property: a # before line line_idx
comment_property(lines, line_idx) ==
    [i \in DOMAIN lines |->
        IF i = line_idx THEN [lines[i] EXCEPT !.comment = @ + 1] ELSE lines[i]]

\* ----------------------------------------------------------------- Init
\* a row of activity_bootstrap.csv
BootstrapRow(activityType, workerID, bootstrapRule, activityData, onFirstCycle) ==
    [activityType |-> activityType, workerID |-> workerID, bootstrapRule |-> bootstrapRule,
     activityData |-> activityData, onFirstCycle |-> onFirstCycle]

\* the function setup_bootstraps returns, on the rows from i on at time t:
\* [status, rules], the rules of the rows of the worker in the order of
\* the table; the first rule that cannot be built ends it
RECURSIVE setup_bootstraps(_, _, _, _, _)
RECURSIVE append_rule(_, _, _, _, _, _)
setup_bootstraps(w, rows, i, t, acc) ==
    IF i > Len(rows)
    THEN [status |-> "ok", rules |-> acc]
    ELSE IF rows[i].workerID # w
    THEN setup_bootstraps(w, rows, i + 1, t, acc)
    ELSE append_rule(w, rows, i, t, acc,
                     ActivityBootstrapRule(rows[i].activityType,
                                           from_expression(rows[i].bootstrapRule, t),
                                           rows[i].activityData, rows[i].onFirstCycle))

\* activity_bootstrap_rules.append(ActivityBootstrapRule(...)) for row i
append_rule(w, rows, i, t, acc, r) ==
    IF r.status = "ok"
    THEN setup_bootstraps(w, rows, i + 1, t, Append(acc, r.rule))
    ELSE [status |-> r.status, rules |-> acc]

\* activity_bootstrap.csv: two rows (A, w1, `@every 1m`, boot, true)
BootstrapTable == [i \in 1..2 |-> BootstrapRow("A", "w1", Every(1, "m"), "boot", TRUE)]

\* a configuration file written before the Orchestrators start
WrittenBefore == 0 - 1

\* the rules of a worker, built when the Orchestrator starts, at time 0
BootstrapRules(w) == setup_bootstraps(w, BootstrapTable, 1, 0, <<>>).rules

\* no call has returned anything yet
NoValue == [how |-> "nothing"]

\* how run() stands: running, ended with a return code, or ended with the
\* exception it lets through ("ValueError") or in a computation that does
\* not end ("loops")
StillRunning == [how |-> "running", code |-> 0 - 1]
Returned(code) == [how |-> "return", code |-> code]
Raised(exception) == [how |-> exception, code |-> 0 - 1]

\* the PropertiesManager an Orchestrator builds at time 0 on a property
\* file, and the state of the configuration as a whole
NewPropertiesManager(lines) ==
    [properties |-> read_properties_file(lines, 1, <<>>).properties,
     last_reload_timestamp |-> 0, last_read |-> 0]

InitConfigurationWith(lines, rows, table) ==
    /\ source_files = [properties |-> [lines |-> lines, mtime |-> WrittenBefore],
                       bootstrap |-> [rows |-> rows, mtime |-> WrittenBefore],
                       processing |-> [rows |-> table, mtime |-> WrittenBefore]]
    /\ properties_manager = [w \in Workers |-> NewPropertiesManager(lines)]
    /\ last_read = [w \in Workers |-> 0]
    /\ return_code = [w \in Workers |-> StillRunning]
    /\ returned = NoValue

InitConfiguration(lines, rows) == InitConfigurationWith(lines, rows, ProcessingTable)

Init ==
    /\ orchestrators = {"w1"}
    /\ now = 0
    /\ files = {}
    /\ logs = {}
    /\ InitConfiguration(<<>>, BootstrapTable)
    /\ rules = [w \in Workers |-> BootstrapRules(w)]
    /\ tracked = [w \in Workers |-> <<>>]
    /\ tasks = <<>>
    /\ created = 0
    /\ submit_count = 0

\* the clock advances
Tick ==
    /\ now + TickStep <= MaxTime
    /\ now' = now + TickStep
    /\ UNCHANGED <<source_files, properties_manager, last_read, return_code, returned, orchestrators, files, logs, rules, tracked, tasks, created, submit_count>>

\* ------------------------------------------------------------ main loop
\* the for loop of do_bootstrap_activities over the rules from index i on,
\* ids[i] being the id rule i mints if it creates: [rules, files, n];
\* an exception of a rule is logged and the loop goes on
RECURSIVE do_bootstrap_activities(_, _, _, _, _, _)
do_bootstrap_activities(rs, i, current_time, ids, fs, n) ==
    IF i > Len(rs)
    THEN [rules |-> rs, files |-> fs, n |-> n]
    ELSE LET r == apply(rs[i], current_time, ids[i], fs)
         IN  do_bootstrap_activities([rs EXCEPT ![i] = r.rule], i + 1, current_time, ids,
                                     r.files, IF r.status = "ok" THEN n + 1 ELSE n)

\* the ids the rules of a worker may mint in one do_bootstrap_activities,
\* reserved_ids being the keys of tracked_activities
BootstrapIds(rs, current_time, tr) ==
    {ids \in [1..Len(rs) -> Ids] :
        \A i \in 1..Len(rs) :
            IF is_up(rs[i], current_time) /\ rs[i].fire_on_next_cycle
            THEN ids[i] \notin TrackedIds(tr)
            ELSE ids[i] = CHOOSE x \in Ids : TRUE}

\* Orchestrator.process_tbp_activities: what it may leave, [tracked,
\* submitted]; an exception it raises is logged by run
process_tbp_activities(w, tr0, fs, lg, t) ==
    UNION {{LET group == SelectSeq(tr, LAMBDA h : h.file.state = TO_BE_PROCESSED
                                            /\ ~already_scheduled_for_processing(h, t))
                r == dispatch(w, TypesInOrder(group, {}), 1, group, tr, <<>>, t)
            IN  [tracked |-> r.tracked, submitted |-> r.submitted] :
              tr \in resync_all(tr0 \o new, fs, lg)} :
           new \in NewlyTracked(w, tr0, fs)}

\* a sweep that drops no entry
keep_tracked_activities(tr, fs, lg) == {tr}

\* Orchestrator.resynchronize_tracked_activities: what it may leave
resynchronize_tracked_activities(tr, fs, lg) == resync_all(tr, fs, lg)

\* run() ends
ends(w, code) ==
    /\ return_code' = [return_code EXCEPT ![w] = code]
    /\ UNCHANGED returned
    /\ orchestrators' = orchestrators \ {w}

\* FileDefinedValue.__reload_data of activity_bootstrap_rules, sb being what
\* the parsing function gives: [status, rules, last_read, reloaded]
reload_data(w, t, sb) ==
    IF sb.status = "ok"
    THEN [status |-> "ok", rules |-> sb.rules, last_read |-> t, reloaded |-> TRUE]
    ELSE [status |-> sb.status, rules |-> rules[w], last_read |-> last_read[w],
          reloaded |-> FALSE]

\* activity_bootstrap_rules.get() in do_bootstrap_activities.  A table that
\* changed is parsed again, its rules being built after current_time was
\* taken: none of them is up in the pass that built it.
get_activity_bootstrap_rules(w, t) ==
    IF should_reload_data(last_read[w], source_files.bootstrap)
    THEN reload_data(w, t, setup_bootstraps(w, source_files.bootstrap.rows, 1, t, <<>>))
    ELSE [status |-> "ok", rules |-> rules[w], last_read |-> last_read[w],
          reloaded |-> FALSE]

\* the cycle of Orchestrator.run after the flags: bootstrap, dispatch and
\* resynchronisation, g being what activity_bootstrap_rules.get() gives
cycle(w, g) ==
    IF g.status # "ok"
    THEN /\ ends(w, Raised(g.status))
         /\ UNCHANGED <<source_files, last_read, now, files, logs, rules, tracked,
                        tasks, created, submit_count>>
    ELSE /\ last_read' = [last_read EXCEPT ![w] = g.last_read]
         /\ \E ids \in BootstrapIds(g.rules, now, tracked[w]) :
                LET b == IF g.reloaded
                         THEN [rules |-> g.rules, files |-> files, n |-> 0]
                         ELSE do_bootstrap_activities(g.rules, 1, now, ids, files, 0)
                IN  /\ created + b.n <= MaxCreated
                    /\ rules' = [rules EXCEPT ![w] = b.rules]
                    /\ files' = b.files
                    /\ created' = created + b.n
                    /\ \E r \in process_tbp_activities(w, tracked[w], b.files, logs, now) :
                          /\ submit_count + Len(r.submitted) <= MaxTasks
                          /\ tasks' = tasks \o r.submitted
                          /\ submit_count' = submit_count + Len(r.submitted)
                          /\ \E tr \in resynchronize_tracked_activities(r.tracked, b.files, logs) :
                                tracked' = [tracked EXCEPT ![w] = tr]
         /\ UNCHANGED <<source_files, return_code, returned, orchestrators, now, logs>>

\* one iteration of the loop of Orchestrator.run after rl, what the reload
\* of pm.get_int gives: the flags, then the cycle
run_with(w, rl) ==
    /\ properties_manager' = [properties_manager EXCEPT ![w] = rl.pm]
    /\ IF rl.status # "ok"
       THEN /\ ends(w, Raised(rl.status))
            /\ UNCHANGED <<source_files, last_read, now, files, logs, rules, tracked,
                           tasks, created, submit_count>>
       ELSE IF get_bool(rl.pm.properties, RELOAD_NOW_PPTY, FALSE)
       THEN /\ source_files' =
                  [source_files EXCEPT
                      !.properties.lines =
                          comment_property(@, resolve_property(rl.pm.properties, RELOAD_NOW_PPTY).line_idx),
                      !.properties.mtime = now]
            /\ ends(w, Returned(RELOAD))
            /\ UNCHANGED <<last_read, now, files, logs, rules, tracked, tasks,
                           created, submit_count>>
       ELSE IF get_bool(rl.pm.properties, STOP_NOW_PPTY, FALSE)
       THEN /\ ends(w, Returned(EXIT_OK))
            /\ UNCHANGED <<source_files, last_read, now, files, logs, rules, tracked,
                           tasks, created, submit_count>>
       ELSE cycle(w, get_activity_bootstrap_rules(w, now))

\* one iteration of the loop of Orchestrator.run, between two sleeps: the
\* properties are read again (pm.get_int), then the flags, then the cycle
run(w) ==
    /\ w \in orchestrators
    /\ run_with(w, reload(properties_manager[w], source_files.properties, now))

\* ------------------------------------------------------------ pool tasks
\* the tasks of a worker's pool that hold one of its processes
Running(w) ==
    {k \in DOMAIN tasks : tasks[k].w = w /\ tasks[k].pc \notin {"queued", "returned"}}

\* the sequence s without its k-th element
Without(s, k) == [j \in 1..(Len(s) - 1) |-> IF j < k THEN s[j] ELSE s[j + 1]]

\* process_activity has returned None, or ended with an exception (proc_ex
\* or one it did not catch).  The callback of a submission that returned
\* None does nothing (`if exception is None: return`): the pool is done
\* with it; the exception of the other is kept for the error callback.
Return(k, raised) ==
    IF raised
    THEN [tasks EXCEPT ![k] = [NewTask(tasks[k].w, NoHandle) EXCEPT
                                  !.type = tasks[k].type, !.pc = "returned"]]
    ELSE Without(tasks, k)

\* process_activity up to the resynchronisation of change_state(IN_PROGRESS);
\* the pool starts its submissions in order, PROCESS_POOL_SIZE at a time
task_begin(k) ==
    /\ tasks[k].pc = "queued"
    /\ Cardinality(Running(tasks[k].w)) < PROCESS_POOL_SIZE_DEFAULT
    /\ \A j \in 1..(k - 1) : tasks[j].w = tasks[k].w => tasks[j].pc # "queued"
    /\ \E r \in resynchronise(tasks[k].h, files, logs) :
          tasks' = IF r.ok
                   THEN [tasks EXCEPT ![k].h = r.h, ![k].start = now, ![k].pc = "take"]
                   ELSE Return(k, TRUE)
    /\ UNCHANGED <<source_files, properties_manager, last_read, return_code, returned, orchestrators, now, files, logs, rules, tracked, created, submit_count>>

\* the renames of change_state(IN_PROGRESS) and the test of its result,
\* then Activity.from_file, attach_file and the FileHandler that creates
\* the log file
task_take(k) ==
    /\ tasks[k].pc = "take"
    /\ LET r == change_state_rename(tasks[k].h, IN_PROGRESS, files, logs)
           logfile == attach_file(r.h, tasks[k].start, r.logs)
       IN  /\ files' = r.files
           /\ IF r.ret
              THEN /\ logs' = r.logs \cup {logfile}
                   /\ tasks' = [tasks EXCEPT ![k].h = [r.h EXCEPT !.att = Append(@, logfile)],
                                             ![k].start = 0, ![k].pc = "execute"]
              ELSE /\ logs' = r.logs
                   /\ tasks' = Return(k, FALSE)
    /\ UNCHANGED <<source_files, properties_manager, last_read, return_code, returned, orchestrators, now, rules, tracked, created, submit_count>>

\* the post-execution actions of process_activity for exit_state, up to
\* the return unless set_retry was called: remove(), or set_retry(), or
\* change_state(exit_state.next_activity_status), whose result
\* process_activity does not look at
dispose(k, exit_state, raised) ==
    \E r \in resynchronise(tasks[k].h, files, logs) :
       IF ~r.ok
       THEN /\ tasks' = Return(k, TRUE)
            /\ UNCHANGED <<files, logs>>
       ELSE IF remove_activity(exit_state)
       THEN LET d == remove(r.h, files, logs)
            IN  /\ files' = d.files
                /\ logs' = d.logs
                /\ tasks' = Return(k, raised)
       ELSE IF exit_state.status = ERROR_RETRY
       THEN LET d == set_retry(r.h, exit_state.retry_delay_s, now, files)
            IN  /\ files' = d.files
                /\ tasks' = [tasks EXCEPT ![k].h = d.h, ![k].pc = "move"]
                /\ UNCHANGED logs
       ELSE LET d == change_state_rename(r.h, exit_state.next_activity_status, files, logs)
            IN  /\ files' = d.files
                /\ logs' = d.logs
                /\ tasks' = Return(k, raised)

\* Processor.create_activities called by the running processor (one
\* payload, a start delay of its choice, reserved_ids left unset); an
\* exception it raises goes through execute and becomes ExitState.error
\* with proc_ex set
task_create(k, activity_type, activity_id, start_delay_s) ==
    /\ tasks[k].pc = "execute"
    /\ created < MaxCreated
    /\ LET r == create_activities(activity_type, <<"proc">>, tasks[k].type, now,
                                  <<activity_id>>, start_delay_s, files)
       IN  IF r.status = "ok"
           THEN /\ files' = r.files
                /\ created' = created + 1
                /\ UNCHANGED <<tasks, logs>>
           ELSE /\ dispose(k, error(TRUE), TRUE)
                /\ UNCHANGED created
    /\ UNCHANGED <<source_files, properties_manager, last_read, return_code, returned, orchestrators, now, rules, tracked, submit_count>>

\* processor.execute returns exit_state
task_execute(k, exit_state) ==
    /\ tasks[k].pc = "execute"
    /\ exit_state.status = ERROR_RETRY => tasks[k].h.file.retries < MaxRetries
    /\ dispose(k, exit_state, FALSE)
    /\ UNCHANGED <<source_files, properties_manager, last_read, return_code, returned, orchestrators, now, rules, tracked, created, submit_count>>

\* processor.execute raises: exit_state = ExitState.error(str(e)), proc_ex = e
task_execute_raises(k) ==
    /\ tasks[k].pc = "execute"
    /\ dispose(k, error(TRUE), TRUE)
    /\ UNCHANGED <<source_files, properties_manager, last_read, return_code, returned, orchestrators, now, rules, tracked, created, submit_count>>

\* after set_retry: change_state(TO_BE_PROCESSED), and the return
task_move(k) ==
    /\ tasks[k].pc = "move"
    /\ \E r \in resynchronise(tasks[k].h, files, logs) :
          IF ~r.ok
          THEN /\ tasks' = Return(k, TRUE)
               /\ UNCHANGED <<files, logs>>
          ELSE LET d == change_state_rename(r.h, TO_BE_PROCESSED, files, logs)
               IN  /\ files' = d.files
                   /\ logs' = d.logs
                   /\ tasks' = Return(k, FALSE)
    /\ UNCHANGED <<source_files, properties_manager, last_read, return_code, returned, orchestrators, now, rules, tracked, created, submit_count>>

\* Orchestrator.on-activity-error.<type>.handler-activity-type, "None" when
\* the two properties are not set for the type
HandlerActivityType(errored_activity_type) ==
    IF errored_activity_type = "A" THEN "B" ELSE "None"

\* Orchestrator.on_activity_processing_error with an exception, run in the
\* worker that made the submission; the pool is done with it afterwards
on_activity_processing_error(k, activity_id) ==
    /\ tasks[k].pc = "returned"
    /\ IF HandlerActivityType(tasks[k].type) \in handled_activity_types(tasks[k].w)
       THEN /\ activity_id \notin TrackedIds(tracked[tasks[k].w])
            /\ created < MaxCreated
            /\ LET r == create_activities(HandlerActivityType(tasks[k].type), <<"error">>,
                                          NoProcessor, now, <<activity_id>>, 0, files)
               IN  /\ files' = r.files
                   /\ created' = IF r.status = "ok" THEN created + 1 ELSE created
       ELSE /\ activity_id = CHOOSE x \in Ids : TRUE
            /\ UNCHANGED <<files, created>>
    /\ tasks' = Without(tasks, k)
    /\ UNCHANGED <<source_files, properties_manager, last_read, return_code, returned, orchestrators, now, logs, rules, tracked, submit_count>>

Next ==
    \/ Tick
    \/ \E w \in Workers : run(w)
    \/ \E k \in DOMAIN tasks : task_begin(k)
    \/ \E k \in DOMAIN tasks : task_take(k)
    \/ \E k \in DOMAIN tasks, t \in Types, i \in Ids, d \in RetryDelays :
          task_create(k, t, i, d)
    \/ \E k \in DOMAIN tasks, e \in ExitStates : task_execute(k, e)
    \/ \E k \in DOMAIN tasks : task_execute_raises(k)
    \/ \E k \in DOMAIN tasks : task_move(k)
    \/ \E k \in DOMAIN tasks, i \in Ids : on_activity_processing_error(k, i)

Spec == Init /\ [][Next]_vars

\* ------------------------------------------------- two Orchestrators
\* Two Orchestrators start on an activity directory where one activity is
\* waiting; neither has bootstrap rules, and no other file is written: the
\* count of written files starts at its bound.
InitTwo ==
    /\ orchestrators = Workers
    /\ now = 0
    /\ files = {NewActivity("A", "boot", "X", 0, 0)}
    /\ logs = {}
    /\ InitConfiguration(<<>>, <<>>)
    /\ rules = [w \in Workers |-> <<>>]
    /\ tracked = [w \in Workers |-> <<>>]
    /\ tasks = <<>>
    /\ created = MaxCreated
    /\ submit_count = 0

\* the steps of the two Orchestrators and of their pools, in the time
\* before the clock moves
NextTwo ==
    \/ \E w \in Workers : run(w)
    \/ \E k \in DOMAIN tasks : task_begin(k)
    \/ \E k \in DOMAIN tasks : task_take(k)
    \/ \E k \in DOMAIN tasks, e \in ExitStates : task_execute(k, e)
    \/ \E k \in DOMAIN tasks : task_execute_raises(k)
    \/ \E k \in DOMAIN tasks : task_move(k)
    \/ \E k \in DOMAIN tasks, i \in Ids : on_activity_processing_error(k, i)

SpecTwo == InitTwo /\ [][NextTwo]_vars

\* ------------------------------------------- ActivityCreator on its own
\* the activity files an activity directory may hold when calls begin
WaitingFiles ==
    {NewActivity("A", "drop", "X", 0, 0), NewActivity("A", "drop", "Y", 0, 0),
     NewActivity("B", "drop", "X", 0, 0),
     [NewActivity("A", "drop", "X", 0, 0) EXCEPT !.state = IN_PROGRESS]}

\* An Orchestrator tracks some of the waiting files (one per id, as its
\* dict is keyed by id); its tracked ids are the reserved ids it passes.
InitCreate ==
    /\ orchestrators = {}
    /\ now = 0
    /\ files \in SUBSET WaitingFiles
    /\ logs = {}
    /\ InitConfiguration(<<>>, <<>>)
    /\ rules = [w \in Workers |-> <<>>]
    /\ \E S \in SUBSET {f \in files : f.state = TO_BE_PROCESSED} :
          /\ \A f, g \in S : f.id = g.id => f = g
          /\ \E o \in Orders(S) :
                tracked = [w \in Workers |->
                             IF w = "w1"
                             THEN [i \in 1..Cardinality(S) |-> TrackedActivity(PathOf(o[i]))]
                             ELSE <<>>]
    /\ tasks = <<>>
    /\ created = 0
    /\ submit_count = 0

\* the payloads of a call
Payloads(n) == [i \in 1..n |-> "new"]

\* the calls of create_activities: the caller's arguments and the ids the
\* call mints; reserved_ids is unset or the tracked ids
CreateInputs ==
    {[activity_type |-> t, n |-> n, from_processor |-> p, reserved_ids |-> R,
      ids |-> ids, start_delay_s |-> d] :
        t \in Types, n \in 1..MaxCreated, p \in Types \cup {NoProcessor},
        R \in {{}, TrackedIds(tracked["w1"])}, ids \in [1..MaxCreated -> Ids],
        d \in RetryDelays}

\* what the call returns
create_result(in) ==
    create_activities(in.activity_type, Payloads(in.n), in.from_processor, now,
                      in.ids, in.start_delay_s, files)

\* one call of ActivityCreator.create_activities
create_call(in) ==
    /\ created + in.n <= MaxCreated
    /\ [i \in 1..in.n |-> in.ids[i]] \in MintedIds(in.reserved_ids, in.n)
    /\ \A i \in (in.n + 1)..MaxCreated : in.ids[i] = in.ids[1]
    /\ files' = create_result(in).files
    /\ created' = created + Cardinality(files' \ files)
    /\ UNCHANGED <<source_files, properties_manager, last_read, return_code, returned, orchestrators, now, logs, rules, tracked, tasks, submit_count>>

NextCreate == \E in \in CreateInputs : create_call(in)

SpecCreate == InitCreate /\ [][NextCreate]_vars

\* ------------------------------------- ActivityBootstrapRule on its own
MaxBootstrapMinutes == 2

\* the rows of activity_bootstrap.csv: onFirstCycle is true in the first
\* row and false in the second
fire_on_first_cycle(i) == i = 1

BootstrapTableFirstCycle ==
    [i \in 1..2 |-> BootstrapRow("A", "w1", Every(1, "m"), "boot", fire_on_first_cycle(i))]

\* the rules are built when the Orchestrator starts, at time 0
InitBootstrap ==
    /\ orchestrators = {"w1"}
    /\ now = 0
    /\ files = {}
    /\ logs = {}
    /\ InitConfiguration(<<>>, BootstrapTableFirstCycle)
    /\ rules = [w \in Workers |->
                  setup_bootstraps(w, BootstrapTableFirstCycle, 1, 0, <<>>).rules]
    /\ tracked = [w \in Workers |-> <<>>]
    /\ tasks = <<>>
    /\ created = 0
    /\ submit_count = 0

\* half a minute passes
TickBootstrap ==
    /\ now + SecondsPerMinute \div 2 <= MaxBootstrapMinutes * SecondsPerMinute
    /\ now' = now + SecondsPerMinute \div 2
    /\ UNCHANGED <<source_files, properties_manager, last_read, return_code, returned, orchestrators, files, logs, rules, tracked, tasks, created, submit_count>>

\* one _rule.apply(current_time, tracked_activities.keys()) of the loop of
\* do_bootstrap_activities, activity_id being the id it mints if it creates
apply_rule(w, i, activity_id) ==
    /\ w \in orchestrators
    /\ activity_id \notin TrackedIds(tracked[w])
    /\ LET r == apply(rules[w][i], now, activity_id, files)
       IN  /\ rules' = [rules EXCEPT ![w][i] = r.rule]
           /\ files' = r.files
           /\ created' = IF r.status = "ok" THEN created + 1 ELSE created
    /\ UNCHANGED <<source_files, properties_manager, last_read, return_code, returned, orchestrators, now, logs, tracked, tasks, submit_count>>

NextBootstrap ==
    \/ TickBootstrap
    \/ \E w \in Workers : \E i \in DOMAIN rules[w], id \in Ids : apply_rule(w, i, id)

SpecBootstrap == InitBootstrap /\ [][NextBootstrap]_vars

\* ---------------------------------------------- one Orchestrator, fair
\* An Orchestrator without bootstrap rules starts on a directory where one
\* activity waits; one more file may be written (by the error hook).
InitLive ==
    /\ orchestrators = {"w1"}
    /\ now = 0
    /\ files = {NewActivity("A", "drop", "X", 0, 0)}
    /\ logs = {}
    /\ InitConfiguration(<<>>, <<>>)
    /\ rules = [w \in Workers |-> <<>>]
    /\ tracked = [w \in Workers |-> <<>>]
    /\ tasks = <<>>
    /\ created = MaxCreated - 1
    /\ submit_count = 0

NextLive ==
    \/ Tick
    \/ run("w1")
    \/ \E k \in DOMAIN tasks : task_begin(k)
    \/ \E k \in DOMAIN tasks : task_take(k)
    \/ \E k \in DOMAIN tasks, e \in ExitStates : task_execute(k, e)
    \/ \E k \in DOMAIN tasks : task_execute_raises(k)
    \/ \E k \in DOMAIN tasks : task_move(k)
    \/ \E k \in DOMAIN tasks, i \in Ids : on_activity_processing_error(k, i)

\* the main loop keeps cycling, the clock advances, the pool runs what it
\* was given and processors terminate
Fairness ==
    /\ WF_vars(Tick)
    /\ WF_vars(run("w1"))
    /\ WF_vars(\E k \in DOMAIN tasks : task_begin(k))
    /\ WF_vars(\E k \in DOMAIN tasks : task_take(k))
    /\ WF_vars(\E k \in DOMAIN tasks, e \in ExitStates : task_execute(k, e))
    /\ WF_vars(\E k \in DOMAIN tasks : task_move(k))
    /\ WF_vars(\E k \in DOMAIN tasks, i \in Ids : on_activity_processing_error(k, i))

SpecLive == InitLive /\ [][NextLive]_vars /\ Fairness

\* ------------------------------ one Orchestrator, two types, one pass
\* An Orchestrator that handles the types A and B starts on a directory
\* where an activity of each type waits, and on a processing table whose
\* row for B names another worker; one more file may be written (by the
\* error hook).
InitPass ==
    /\ orchestrators = {"w1"}
    /\ now = 0
    /\ files = {NewActivity("A", "drop", "X", 0, 0), NewActivity("B", "drop", "Y", 0, 0)}
    /\ logs = {}
    /\ InitConfigurationWith(<<>>, <<>>, ProcessingTableOther)
    /\ rules = [w \in Workers |-> <<>>]
    /\ tracked = [w \in Workers |-> <<>>]
    /\ tasks = <<>>
    /\ created = MaxCreated - 1
    /\ submit_count = 0

SpecPass == InitPass /\ [][NextLive]_vars

\* ------------------------------------- one Orchestrator and its operator
\* the lines an operator writes in the property file: the two flags set or
\* unset, and a line that is not a key-value pair
FlagLines ==
    {PropertyLine(RELOAD_NOW_PPTY, "true"), PropertyLine(RELOAD_NOW_PPTY, "false"),
     PropertyLine(STOP_NOW_PPTY, "true")}
Malformed == PropertyLine(<<"Orchestrator", "sleep-ms">>, "")
MaxLines == 2
PropertyFiles(lines) == UNION {[1..n -> lines] : n \in 0..MaxLines}

\* the rows an operator writes in activity_bootstrap.csv
MaxRows == 2
BootstrapRows ==
    {BootstrapRow("A", "w1", Every(1, "m"), "boot", TRUE),
     BootstrapRow("A", "w1", Undecodable, "boot", TRUE)}
BootstrapTables == UNION {[1..n -> BootstrapRows] : n \in 0..MaxRows}

\* The Orchestrator starts on a property file it can parse and on the
\* bootstrap table of two rows; one activity file may be written.
InitReload ==
    /\ orchestrators = {"w1"}
    /\ now = 0
    /\ files = {}
    /\ logs = {}
    /\ \E lines \in PropertyFiles(FlagLines) : InitConfiguration(lines, BootstrapTable)
    /\ rules = [w \in Workers |-> BootstrapRules(w)]
    /\ tracked = [w \in Workers |-> <<>>]
    /\ tasks = <<>>
    /\ created = MaxCreated - 1
    /\ submit_count = 0

\* the operator saves the property file
edit_properties(lines) ==
    /\ lines # source_files.properties.lines
    /\ source_files' = [source_files EXCEPT !.properties = [lines |-> lines, mtime |-> now]]
    /\ UNCHANGED <<properties_manager, last_read, return_code, returned, orchestrators, now, files,
                   logs, rules, tracked, tasks, created, submit_count>>

\* the operator saves activity_bootstrap.csv
edit_bootstrap(rows) ==
    /\ rows # source_files.bootstrap.rows
    /\ source_files' = [source_files EXCEPT !.bootstrap = [rows |-> rows, mtime |-> now]]
    /\ UNCHANGED <<properties_manager, last_read, return_code, returned, orchestrators, now, files,
                   logs, rules, tracked, tasks, created, submit_count>>

NextReload ==
    \/ Tick
    \/ run("w1")
    \/ \E lines \in PropertyFiles(FlagLines \cup {Malformed}) : edit_properties(lines)
    \/ \E rows \in BootstrapTables : edit_bootstrap(rows)

SpecReload == InitReload /\ [][NextReload]_vars

\* --------------------------------------- TimedExecutionRule on its own
\* the rule expressions a bootstrap table may hold: both grammars, the
\* count 0 that `\d+` admits, field lists with one and with several values,
\* the hour 24 the pattern admits, and a text that is no rule
RuleExpressions ==
    {Every(5, "m"), Every(1, "h"), Every(0, "m"),
     Cronlite(Values({0, 30}), Star, Star),
     Cronlite(Values({0}), Values({0}), Values({2})),
     Cronlite(Values({30}), Values({5, 23}), Values({0, 6})),
     Cronlite(Values({0}), Values({0, 24}), Star),
     Cronlite(Values({0}), Values({3, 24}), Star),
     Cronlite(Values({0}), Values({24}), Star),
     Undecodable}

\* the times a rule is built at: Sunday 00:02:00, 03:00:00, 07:01:00 and
\* 07:01:30
StartTimes ==
    {2 * SecondsOf.MINUTE, 3 * SecondsOf.HOUR, 7 * SecondsOf.HOUR + SecondsOf.MINUTE,
     7 * SecondsOf.HOUR + SecondsOf.MINUTE + SecondsOf.MINUTE \div 2}

\* the days rules are followed over, and by how many seconds the time a
\* rule is due may be overslept
MaxRuleDays == 9
Oversleeps == {58, 3607}

\* A bootstrap table of one row is read at one of the start times.
InitRule ==
    /\ orchestrators = {}
    /\ now \in StartTimes
    /\ files = {}
    /\ logs = {}
    /\ \E e \in RuleExpressions :
          InitConfiguration(<<>>, <<BootstrapRow("A", "w1", e, "boot", TRUE)>>)
    /\ rules = [w \in Workers |->
                  setup_bootstraps(w, source_files.bootstrap.rows, 1, now, <<>>).rules]
    /\ tracked = [w \in Workers |-> <<>>]
    /\ tasks = <<>>
    /\ created = 0
    /\ submit_count = 0

\* time passes until the rule is due
WaitUntilDue(w, i) ==
    /\ ~is_up(rules[w][i], now)
    /\ rules[w][i].next_execution <= MaxRuleDays * SecondsOf.DAY
    /\ now' = rules[w][i].next_execution
    /\ UNCHANGED <<source_files, properties_manager, last_read, return_code, returned, orchestrators,
                   files, logs, rules, tracked, tasks, created, submit_count>>

\* time passes beyond the instant the rule is due
Oversleep(w, i, d) ==
    /\ now = rules[w][i].next_execution
    /\ now' = now + d
    /\ UNCHANGED <<source_files, properties_manager, last_read, return_code, returned, orchestrators,
                   files, logs, rules, tracked, tasks, created, submit_count>>

\* rule.mark_executed(current_time) of a rule that is up, when the
\* generator returns
mark(w, i) ==
    /\ is_up(rules[w][i], now)
    /\ next_datetime_generator(rules[w][i], rules[w][i].next_execution).status = "ok"
    /\ rules' = [rules EXCEPT ![w][i] = mark_executed(@)]
    /\ UNCHANGED <<source_files, properties_manager, last_read, return_code, returned, orchestrators,
                   now, files, logs, tracked, tasks, created, submit_count>>

\* rule.mark_executed(current_time) of a rule that is up, when the loop of
\* the generator does not end: the caller is never handed a result
mark_loops(w, i) ==
    /\ is_up(rules[w][i], now)
    /\ return_code[w] = StillRunning
    /\ next_datetime_generator(rules[w][i], rules[w][i].next_execution).status = "loops"
    /\ return_code' = [return_code EXCEPT ![w] = Raised("loops")]
    /\ UNCHANGED <<returned, source_files, properties_manager, last_read, orchestrators, rules,
                   now, files, logs, tracked, tasks, created, submit_count>>

NextRule ==
    \/ \E w \in Workers : \E i \in DOMAIN rules[w] : WaitUntilDue(w, i)
    \/ \E w \in Workers : \E i \in DOMAIN rules[w], d \in Oversleeps : Oversleep(w, i, d)
    \/ \E w \in Workers : \E i \in DOMAIN rules[w] : mark(w, i)
    \/ \E w \in Workers : \E i \in DOMAIN rules[w] : mark_loops(w, i)

SpecRule == InitRule /\ [][NextRule]_vars

\* ------------------------------------------- the building of the rules
\* the times the bootstrap table is first read at: the start times, and
\* Sunday 00:30:00, Sunday 05:30:15, Tuesday 00:00:00, Saturday 23:59:59
BuildTimes ==
    StartTimes
    \cup {30 * SecondsOf.MINUTE, 5 * SecondsOf.HOUR + 30 * SecondsOf.MINUTE + 15,
          2 * SecondsOf.DAY, 7 * SecondsOf.DAY - 1}

\* An Orchestrator has not read its bootstrap table of one row yet.
InitBuild ==
    /\ orchestrators = {}
    /\ now \in BuildTimes
    /\ files = {}
    /\ logs = {}
    /\ \E e \in RuleExpressions :
          InitConfiguration(<<>>, <<BootstrapRow("A", "w1", e, "boot", TRUE)>>)
    /\ rules = [w \in Workers |-> <<>>]
    /\ tracked = [w \in Workers |-> <<>>]
    /\ tasks = <<>>
    /\ created = 0
    /\ submit_count = 0

\* the first activity_bootstrap_rules.get() of a worker (last_read is 0):
\* the rules are built at the current time; g is what the read gives
build_with(w, g) ==
    /\ rules' = [rules EXCEPT ![w] = g.rules]
    /\ last_read' = [last_read EXCEPT ![w] = g.last_read]
    /\ return_code' = IF g.status = "ok" THEN return_code
                      ELSE [return_code EXCEPT ![w] = Raised(g.status)]
    /\ UNCHANGED <<returned, source_files, properties_manager, orchestrators, now, files, logs,
                   tracked, tasks, created, submit_count>>

build(w) ==
    /\ last_read[w] = 0
    /\ return_code[w] = StillRunning
    /\ \E i \in DOMAIN source_files.bootstrap.rows :
          source_files.bootstrap.rows[i].workerID = w
    /\ build_with(w, reload_data(w, now, setup_bootstraps(w, source_files.bootstrap.rows,
                                                         1, now, <<>>)))

NextBuild ==
    \/ \E w \in Workers : build(w)
    \/ \E w \in Workers : \E i \in DOMAIN rules[w] : WaitUntilDue(w, i)

SpecBuild == InitBuild /\ [][NextBuild]_vars

\* ------------------------------------------------- RuleEngine on its own
\* the cells a row of the table is written with, and the rows of a table
MaxTableRows == 2
KeyCells == {<<"*">>, <<"A">>, <<"1">>, <<"0", "1">>, <<"1", ".", "0">>, <<"T", "r", "u", "e">>}
TableRows ==
    [activityType : KeyCells, workerID : {<<"*">>, <<"w", "1">>},
     parallelProcesses : {<<"1">>, <<"2">>}]
Tables == UNION {[1..n -> TableRows] : n \in 0..MaxTableRows}

\* the criteria of a lookup: the activity type (a str, an int, a float, a
\* bool) and possibly the worker id, or nothing at all
CriteriaValues ==
    {str("A"), [type |-> "str", v |-> <<"1">>], [type |-> "int", v |-> 1],
     [type |-> "float", v |-> [num |-> 10, den |-> 10]], [type |-> "bool", v |-> TRUE]}
Criterias ==
    {<<>>}
    \cup {(LABEL_ACTIVITY_TYPE :> a) : a \in CriteriaValues}
    \cup {(LABEL_ACTIVITY_TYPE :> a) @@ (LABEL_WORKER_ID :> str(w)) :
            a \in CriteriaValues, w \in Workers}

\* A table was written; nothing was looked up in it yet.
InitLookup ==
    /\ orchestrators = {}
    /\ now = 0
    /\ files = {}
    /\ logs = {}
    /\ \E table \in Tables :
          source_files = [properties |-> [lines |-> <<>>, mtime |-> WrittenBefore],
                          bootstrap |-> [rows |-> <<>>, mtime |-> WrittenBefore],
                          processing |-> [rows |-> table, mtime |-> WrittenBefore]]
    /\ properties_manager = [w \in Workers |-> NewPropertiesManager(<<>>)]
    /\ last_read = [w \in Workers |-> 0]
    /\ return_code = [w \in Workers |-> StillRunning]
    /\ returned = NoValue
    /\ rules = [w \in Workers |-> <<>>]
    /\ tracked = [w \in Workers |-> <<>>]
    /\ tasks = <<>>
    /\ created = 0
    /\ submit_count = 0

\* a call of a lookup and what it gave
Call(name, criteria, result) == [call |-> name, criteria |-> criteria] @@ result

lookup_mappings(criteria) ==
    /\ returned' = Call("get_mappings", criteria,
                        get_mappings(source_files.processing.rows, criteria,
                                     {LABEL_PARELLEL_PROCESSES}))
    /\ UNCHANGED <<source_files, properties_manager, last_read, return_code, orchestrators,
                   now, files, logs, rules, tracked, tasks, created, submit_count>>

lookup_mapping(criteria) ==
    /\ returned' = Call("get_mapping", criteria,
                        get_mapping(source_files.processing.rows, criteria,
                                    {LABEL_PARELLEL_PROCESSES}))
    /\ UNCHANGED <<source_files, properties_manager, last_read, return_code, orchestrators,
                   now, files, logs, rules, tracked, tasks, created, submit_count>>

NextLookup ==
    \/ \E criteria \in Criterias : lookup_mappings(criteria)
    \/ \E criteria \in Criterias : lookup_mapping(criteria)

SpecLookup == InitLookup /\ [][NextLookup]_vars

\* ------------------------------------------ PropertiesManager on its own
\* the keys and the lines of the property files, and the names looked up
MaxKeys == 3
KeyParts == {"a", "b", WILDCARD_PROPERTY_PART}
PropertyKeys == {<<"a">>, <<WILDCARD_PROPERTY_PART>>} \cup (KeyParts \X KeyParts)
KeyLines == {PropertyLine(key, value) : key \in PropertyKeys, value \in {"x", "y"}}
KeyFiles == UNION {[1..n -> KeyLines] : n \in 0..MaxKeys}
LookedUp == {<<"a">>, <<"a", "b">>, <<"b", "b">>, <<"b", "a">>}

\* A PropertiesManager was built on a property file.
InitResolve ==
    /\ orchestrators = {}
    /\ now = 0
    /\ files = {}
    /\ logs = {}
    /\ \E lines \in KeyFiles : InitConfiguration(lines, <<>>)
    /\ rules = [w \in Workers |-> <<>>]
    /\ tracked = [w \in Workers |-> <<>>]
    /\ tasks = <<>>
    /\ created = 0
    /\ submit_count = 0

\* PropertiesManager.__resolve_property(property_name, required=False) after
\* rl, what the reload it begins with gave
resolve_with(w, property_name, rl) ==
    /\ properties_manager' = [properties_manager EXCEPT ![w] = rl.pm]
    /\ returned' = Call("resolve", property_name,
                        [how |-> "return",
                         value |-> resolve_property(rl.pm.properties, property_name)])
    /\ UNCHANGED <<source_files, last_read, return_code, orchestrators, now, files, logs,
                   rules, tracked, tasks, created, submit_count>>

resolve(w, property_name) ==
    resolve_with(w, property_name, reload(properties_manager[w], source_files.properties, now))

NextResolve == \E property_name \in LookedUp : resolve("w1", property_name)

SpecResolve == InitResolve /\ [][NextResolve]_vars

\* --------------------------------------------------- Activity on its own
\* the Activity values written: created on the minute or within it, with
\* and without a retry time
ActivityValues ==
    [activity_type : Types, creation_time : {0, 60, 90, 3600}, activity_id : Ids,
     retries : 0..1, retry_time : {NoTime, 45}, state : {TO_BE_PROCESSED, ERROR},
     data : {"{}", "boot"}]

\* Nothing is written under the root.
InitActivity ==
    /\ orchestrators = {}
    /\ now = 0
    /\ files = {}
    /\ logs = {}
    /\ InitConfiguration(<<>>, <<>>)
    /\ rules = [w \in Workers |-> <<>>]
    /\ tracked = [w \in Workers |-> <<>>]
    /\ tasks = <<>>
    /\ created = 0
    /\ submit_count = 0

\* activity.write_file(root_dir) on the empty root, r being what it gives
written(activity, r) ==
    /\ files' = r.files
    /\ returned' = Call("write_file", activity, [how |-> "return", value |-> r.path])
    /\ UNCHANGED <<source_files, properties_manager, last_read, return_code, orchestrators,
                   now, logs, rules, tracked, tasks, created, submit_count>>

write(activity) ==
    /\ files = {}
    /\ written(activity, write_file(activity, files))

\* Activity.from_file on the path write_file returned
decode ==
    /\ returned # NoValue
    /\ returned.call = "write_file"
    /\ returned' = Call("from_file", returned.criteria,
                        [how |-> "return", value |-> from_file(returned.value, files)])
    /\ UNCHANGED <<source_files, properties_manager, last_read, return_code, orchestrators,
                   now, files, logs, rules, tracked, tasks, created, submit_count>>

NextActivity ==
    \/ \E activity \in ActivityValues : write(activity)
    \/ decode

SpecActivity == InitActivity /\ [][NextActivity]_vars

\* ================================================================ claims
\* change_state(IN_PROGRESS) returns a path to submission k in this step
Taken(k) ==
    /\ Len(tasks') = Len(tasks)
    /\ tasks[k].pc = "take"
    /\ tasks'[k].pc = "execute"

\* the process of submission k holds an activity: change_state(IN_PROGRESS)
\* returned a path to it and process_activity has not returned
Holding(k) == tasks[k].pc \in {"execute", "move"}

\* process_activity of submission k ends in this step
Finished(k) ==
    \/ tasks' = Without(tasks, k)
    \/ Len(tasks') = Len(tasks) /\ tasks'[k].pc = "returned"

\* C1: of two holders of a TrackedActivity for the same TO_BE_PROCESSED file
\* that both call change_state(IN_PROGRESS), one gets a path and the other
\* null: no call returns a path for an activity that another process holds
\* from a call that returned a path.
C1_OneChangeStateSucceeds ==
    [][\A k \in DOMAIN tasks :
          Taken(k) => ~\E j \in DOMAIN tasks :
                          j # k /\ Holding(j) /\ tasks[j].h.key = tasks[k].h.key]_vars

\* C2: when two Orchestrators dispatch the same activity, at no instant are
\* the pool tasks of both executing the processor on it.
C2_OneExecution ==
    \A j, k \in DOMAIN tasks :
        (tasks[j].w # tasks[k].w /\ tasks[j].pc = "execute" /\ tasks[k].pc = "execute")
            => tasks[j].h.key # tasks[k].h.key

\* the activities of type t that worker w has submitted to its pool and
\* whose task has not disposed of them
Processing(w, t) ==
    {tasks[k].h.key : k \in {j \in DOMAIN tasks :
                                tasks[j].w = w /\ tasks[j].type = t /\ tasks[j].pc # "returned"}}

\* C3: for every type t, the number of activities of type t a worker is
\* processing at the same time never exceeds parallelProcesses(t, worker).
C3_ParallelismCap ==
    \A w \in orchestrators : \A t \in handled_activity_types(w) :
        ~NoRuleMatch(t, w) =>
            Cardinality(Processing(w, t)) <= allowed_parallel_processes(t, w)

\* the edges of the lifecycle
LifecycleEdges ==
    {<<TO_BE_PROCESSED, IN_PROGRESS>>, <<IN_PROGRESS, PROCESSED>>, <<IN_PROGRESS, ERROR>>,
     <<IN_PROGRESS, TO_BE_PROCESSED>>, <<IN_PROGRESS, IGNORED>>}

\* the name and contents of an activity file, whatever its directory
NameOf(f) == [f EXCEPT !.state = "None"]

\* C4: every change of directory of an activity file follows an edge of the
\* lifecycle, and a file in PROCESSED or ERROR is never moved again.
C4_LifecycleEdges ==
    [][/\ \A f \in files \ files', g \in files' \ files :
             NameOf(f) = NameOf(g) => <<f.state, g.state>> \in LifecycleEdges
       /\ \A f \in files : f.state \in {PROCESSED, ERROR} => f \in files']_vars

\* C5: after a change_state(s) that returns a path (here s = IN_PROGRESS, the
\* call whose result process_activity tests), the activity file and every
\* file attached to the activity, the logs of its earlier runs included,
\* are in the directory of s.
C5_AttachedFilesFollow ==
    [][\A k \in DOMAIN tasks :
          Taken(k) =>
              /\ is_file(tasks'[k].h.file, files')
              /\ tasks'[k].h.file.state = IN_PROGRESS
              /\ \A l \in logs' : LogKey(l) = tasks[k].h.key => l.state = IN_PROGRESS]_vars

\* C6: at every instant no two activity files share (type, creation_time, id).
C6_UniqueKeys ==
    \A f, g \in files : unique_key(f) = unique_key(g) => f = g

C8_CreatesExactlyN ==
    [][\A in \in CreateInputs :
          (create_call(in) /\ create_result(in).status = "ok") =>
              /\ files \subseteq files'
              /\ Cardinality(files' \ files) = in.n
              /\ \A f \in files' \ files :
                    /\ f.state = TO_BE_PROCESSED
                    /\ f.retries = 0
                    /\ f.id \notin in.reserved_ids
                    /\ \A g \in files' \ files : f.id = g.id => f = g]_vars

\* a call with tracked ids reserved has written files, and two new files
\* are there
C8_Created ==
    /\ created = MaxCreated
    /\ tracked["w1"] # <<>>
    /\ \E f, g \in files :
          /\ f # g /\ f.data = "new" /\ g.data = "new"
          /\ f.id \notin TrackedIds(tracked["w1"])

\* C9: with onFirstCycle false, the first apply() at which the timer is up
\* (the rule has never been marked executed) creates no activity and every
\* later one creates exactly one; with onFirstCycle true every apply() at
\* which the timer is up creates exactly one; an apply() at which the timer
\* is not up creates none and leaves the timer alone.
C9_BootstrapFiring ==
    [][\A i \in DOMAIN rules["w1"], id \in Ids :
          apply_rule("w1", i, id) =>
              LET rule == rules["w1"][i]
                  n == Cardinality(files' \ files)
              IN  IF ~is_up(rule, now)
                  THEN n = 0 /\ rules'["w1"][i].next_execution = rule.next_execution
                  ELSE IF ~fire_on_first_cycle(i) /\ rule.next_execution = 0
                  THEN n = 0
                  ELSE n = 1]_vars

\* C10: when the processor returns ExitState.retry with a delay d > 0 for an
\* activity with r retries, set_retry names the file with r + 1 retries and
\* the retry time now + d; when the task finishes that file is in
\* TO_BE_PROCESSED; and while such a file waits there with its retry time
\* ahead, already_scheduled_for_processing is true on every handle of an
\* Orchestrator for the activity.
C10_RetryDelayed ==
    [][/\ \A k \in DOMAIN tasks, d \in RetryDelays \ {0} :
             (tasks[k].pc = "execute" /\ task_execute(k, retry(FALSE, d)))
                 => /\ Len(tasks') = Len(tasks)
                    /\ tasks'[k].pc = "move"
                    /\ tasks'[k].h.file = [tasks[k].h.file EXCEPT !.retries = @ + 1,
                                                                 !.rtime = now + d]
                    /\ is_file(tasks'[k].h.file, files')
       /\ \A k \in DOMAIN tasks :
             (tasks[k].pc = "move" /\ tasks[k].h.file.rtime > now /\ Finished(k))
                 => is_file([tasks[k].h.file EXCEPT !.state = TO_BE_PROCESSED], files')
       /\ \A w \in orchestrators : \A i \in DOMAIN tracked[w] :
             (\E f \in files : /\ unique_key(f) = tracked[w][i].key
                               /\ f.state = TO_BE_PROCESSED
                               /\ f.rtime > now)
                 => \A r \in resynchronise(tracked[w][i], files, logs) :
                       r.ok /\ already_scheduled_for_processing(r.h, now)]_vars

\* the activity files with the unique key of submission k's handle
FilesOf(k, fs) == {f \in fs : unique_key(f) = tasks[k].h.key}

\* the attached files with the unique key of submission k's handle
LogsOf(k, lg) == {l \in lg : LogKey(l) = tasks[k].h.key}

\* C11: a pool task removes the activity file and all its attachments if and
\* only if the ExitState is SUCCESS with actual_work_was_done false; after the
\* disposition of any other ExitState the activity file exists in the
\* directory of next_activity_status.
C11_RemoveOnlyNoWorkSuccess ==
    [][\A k \in DOMAIN tasks :
          /\ \A e \in ExitStates :
                (tasks[k].pc = "execute" /\ task_execute(k, e)) =>
                    IF remove_activity(e)
                    THEN /\ Cardinality(FilesOf(k, files')) < Cardinality(FilesOf(k, files))
                            \/ FilesOf(k, files) = {}
                         /\ LogsOf(k, logs') = {}
                    ELSE IF e.status = ERROR_RETRY
                    THEN FilesOf(k, files') # {}
                    ELSE \E f \in FilesOf(k, files') : f.state = e.next_activity_status
          /\ (tasks[k].pc = "move" /\ task_move(k)) =>
                \E f \in FilesOf(k, files') : f.state = TO_BE_PROCESSED]_vars

\* the log file process_activity attached for this execution of submission k
OwnLog(k) == tasks[k].h.att[Len(tasks[k].h.att)]

\* C12: when processor.execute raises, the activity file and the log of the
\* execution end in ERROR and the task ends with the exception, which the
\* pool hands to on_activity_processing_error; a task whose processor
\* returned an ExitState ends with no exception.
C12_RaiseIsError ==
    [][\A k \in DOMAIN tasks :
          /\ (tasks[k].pc = "execute" /\ task_execute_raises(k)) =>
                /\ \E f \in FilesOf(k, files') : f.state = ERROR
                /\ LogIn(OwnLog(k), ERROR) \in logs'
                /\ Len(tasks') = Len(tasks)
                /\ tasks'[k].pc = "returned"
          /\ (\/ tasks[k].pc = "execute" /\ \E e \in ExitStates : task_execute(k, e)
              \/ tasks[k].pc = "move" /\ task_move(k)) =>
                (Len(tasks') = Len(tasks) => tasks'[k].pc # "returned")]_vars

\* the call names a processor whose declared output set lacks the type
Undeclared(in) ==
    /\ in.from_processor # NoProcessor
    /\ in.activity_type \notin OUTPUT_ACTIVITY_TYPES(in.from_processor)

C14_NullMovesNothing ==
    [][\A k \in DOMAIN tasks :
          (tasks[k].pc = "take" /\ task_take(k) /\ ~Taken(k)) =>
              /\ files' = files
              /\ logs' = logs
              /\ tasks' = Without(tasks, k)]_vars

\* the unique keys activities of the model may have
Keys == {[type |-> t, ctime |-> 0, id |-> i] : t \in Types, i \in Ids}

\* an activity file with this key sits in TO_BE_PROCESSED, its type is
\* handled by w1 with a positive cap, its retry time (if any) has passed and
\* so has the 10 s mark of an earlier submission; the pool may be given one
\* more task
Waiting(key) ==
    /\ \E f \in files : /\ unique_key(f) = key
                        /\ f.state = TO_BE_PROCESSED
                        /\ f.rtime = NoTime \/ f.rtime <= now
    /\ key.type \in handled_activity_types("w1")
    /\ ~NoRuleMatch(key.type, "w1")
    /\ allowed_parallel_processes(key.type, "w1") > 0
    /\ \A i \in DOMAIN tracked["w1"] :
          tracked["w1"][i].key = key => tracked["w1"][i].delay <= now
    /\ submit_count < MaxTasks

\* the processor is invoked on the activity with this key
Invoked(key) == \E k \in DOMAIN tasks : tasks[k].pc = "execute" /\ tasks[k].h.key = key

\* C15: under fair scheduling of the main loop and of the pool, every
\* activity file of a handled type with a positive cap that waits in
\* TO_BE_PROCESSED with its retry time passed is eventually submitted and
\* its processor invoked.
C15_AtLeastOnce == \A key \in Keys : Waiting(key) ~> Invoked(key)

\* the flags as run() reads them in a cycle that leads from the unprimed
\* to the primed state, and the edit that comments the line of a flag
FlagRead(w, name) == get_bool(properties_manager'[w].properties, name, FALSE)
Commented(name) ==
    LET lines == source_files.properties.lines
    IN  \E i \in DOMAIN lines :
           /\ lines[i] = PropertyLine(name, "true")
           /\ \A j \in (i + 1)..Len(lines) : lines[j].key # name \/ lines[j].comment > 0
           /\ source_files'.properties.lines = [lines EXCEPT ![i].comment = 1]
NothingCreatedOrSubmitted ==
    /\ files' = files
    /\ created' = created
    /\ tasks' = tasks
    /\ submit_count' = submit_count

\* C16: in a cycle of the main loop where reload-now is read true, the line
\* of the property is commented in the property file and run() returns 2;
\* where it is not and stop-now is read true, run() returns 0; in both
\* cases no activity is created and none is submitted in that cycle.
C16_FlagsFirst ==
    [][\A w \in Workers :
          (w \in orchestrators /\ run(w)) =>
              IF FlagRead(w, RELOAD_NOW_PPTY)
              THEN /\ return_code'[w] = Returned(RELOAD)
                   /\ Commented(RELOAD_NOW_PPTY)
                   /\ NothingCreatedOrSubmitted
              ELSE FlagRead(w, STOP_NOW_PPTY) =>
                      /\ return_code'[w] = Returned(EXIT_OK)
                      /\ source_files' = source_files
                      /\ NothingCreatedOrSubmitted]_vars

\* C17: run() ends only by returning 0 or 2: no failure concerning a
\* property line or a bootstrap rule at hot reload, or any single activity,
\* propagates out of the main loop.
C17_RunOnlyReturns ==
    \A w \in Workers :
        \/ return_code[w] = StillRunning
        \/ return_code[w] \in {Returned(EXIT_OK), Returned(RELOAD)}

\* the period N of `@every N{m|h}`, in seconds
Period(expression) ==
    expression.count * (IF expression.unit = "m" THEN SecondsOf.MINUTE ELSE SecondsOf.HOUR)

\* the instants is_up is looked at: the two minutes before and after an
\* instant, to the second, and every minute of the two hours around it
Around(t) ==
    {u \in (t - 2 * SecondsOf.MINUTE)..(t + 2 * SecondsOf.MINUTE) : u >= 0}
    \cup {t + m * SecondsOf.MINUTE : m \in 0..TimeResolution.MINUTE}
    \cup {u \in {t - m * SecondsOf.MINUTE : m \in 0..TimeResolution.MINUTE} : u >= 0}

\* C18: a rule `@every N{m|h}` whose next_execution is T is up at T, and
\* once marked executed, at whatever current time, it is up at t exactly
\* when t >= T + N.
C18_EveryPeriod ==
    [][\A w \in Workers : \A i \in DOMAIN rules[w] :
          (rules[w][i].grammar = "@every" /\ mark(w, i)) =>
              LET T == rules[w][i].next_execution
                  N == Period(source_files.bootstrap.rows[i].bootstrapRule)
              IN  /\ is_up(rules[w][i], T)
                  /\ \A t \in Around(T) \cup Around(T + N) \cup {now} :
                        is_up(rules'[w][i], t) <=> t >= T + N]_vars

\* the rule `@every 5m` built at 00:02:00 has been marked twice, an hour
\* late
C18_MarkedLate ==
    /\ source_files.bootstrap.rows[1].bootstrapRule = Every(5, "m")
    /\ Len(rules["w1"]) = 1
    /\ rules["w1"][1].next_execution = 2 * SecondsOf.MINUTE + 2 * Period(Every(5, "m"))
    /\ now = 2 * SecondsOf.MINUTE + 3607

\* the minute-aligned times of the eight days from the day of L on whose
\* minute, hour and Sunday-based weekday are in the three sets
FireTimes(L, MIN, HOUR, DOW) ==
    {t \in {clone_datetime(L, SecondsOf.DAY) + d * SecondsOf.DAY + h * SecondsOf.HOUR
                + m * SecondsOf.MINUTE :
                d \in 0..TimeResolution.DAY,
                h \in HOUR \cap (0..(TimeResolution.HOUR - 1)),
                m \in MIN \cap (0..(TimeResolution.MINUTE - 1))} :
        datetime_to_cron_day(t) \in DOW}

\* C19: for a cronlite rule with field sets (MIN, HOUR, DOW) and a
\* minute-aligned last fire time L, mark_executed sets next_execution to the
\* earliest minute-aligned time strictly later than L whose minute is in
\* MIN, hour in HOUR and Sunday-based weekday in DOW.
C19_CronliteNext ==
    [][\A w \in Workers : \A i \in DOMAIN rules[w] :
          LET rule == rules[w][i]
              L == rule.next_execution
          IN  (/\ rule.grammar = "cronlite"
               /\ L % SecondsOf.MINUTE = 0
               /\ mark(w, i) \/ mark_loops(w, i)) =>
                  LET later == {t \in FireTimes(L, rule.mins, rule.hours, rule.days) : t > L}
                  IN  later # {} => rules'[w][i].next_execution = Min(later)]_vars

\* a cronlite expression with a value outside the range of its field
OutOfRange(expression) ==
    /\ expression.grammar = "cronlite"
    /\ \/ ~(expression.min.values \subseteq 0..(TimeResolution.MINUTE - 1))
       \/ ~(expression.hour.values \subseteq 0..(TimeResolution.HOUR - 1))
       \/ ~(expression.day.values \subseteq 0..(TimeResolution.DAY - 1))

\* C20: a cronlite expression with an out-of-range value (the hour 24 the
\* pattern admits) is rejected: from_expression yields no rule for it and
\* no bootstrap rule is built from it.
C20_OutOfRangeRejected ==
    \A i \in DOMAIN source_files.bootstrap.rows :
        LET row == source_files.bootstrap.rows[i]
        IN  OutOfRange(row.bootstrapRule) =>
                /\ from_expression(row.bootstrapRule, now) = NoRule
                /\ rules[row.workerID] = <<>>

\* whether the minute, hour and weekday of t are those of a cronlite rule
Matches(rule, t) ==
    /\ minute(t) \in rule.mins
    /\ hour(t) \in rule.hours
    /\ datetime_to_cron_day(t) \in rule.days

\* the rules of w that exist, each built at the time last_read[w]
Built(w) == IF last_read[w] = 0 THEN {} ELSE {rules[w][i] : i \in DOMAIN rules[w]}

\* C21 as written: for both grammars (`@every` and cronlite), a rule
\* constructed at time `now` has next_execution equal to `now`, so is_up(now)
\* is true immediately after construction.
C21_StartsAtNow ==
    \A w \in Workers : \A rule \in Built(w) :
        /\ rule.next_execution = last_read[w]
        /\ is_up(rule, last_read[w])

\* C21: an `@every` rule constructed at time `now` has next_execution equal
\* to `now`; a cronlite rule has it equal to `now` when the minute, hour and
\* weekday of `now` are in its fields, and otherwise within the first minute
\* after `now` whose minute, hour and weekday are; is_up(now) is true
\* immediately after construction exactly in the former cases.
C21_FirstExecution ==
    \A w \in Workers : \A rule \in Built(w) :
        LET t == last_read[w]
            later == {u \in FireTimes(t, rule.mins, rule.hours, rule.days) : u > t}
        IN  /\ rule.grammar = "@every" => rule.next_execution = t
            /\ (rule.grammar = "cronlite" /\ Matches(rule, t)) => rule.next_execution = t
            /\ (rule.grammar = "cronlite" /\ ~Matches(rule, t)) =>
                  /\ Matches(rule, rule.next_execution)
                  /\ later # {}
                  /\ rule.next_execution \in Min(later)..(Min(later) + SecondsOf.MINUTE - 1)
            /\ is_up(rule, t) <=> (rule.grammar = "@every" \/ Matches(rule, t))

\* a cronlite rule was built at a time its fields hold, and is up at once
C21_BuiltOnTime ==
    \E w \in Workers : \E rule \in Built(w) :
        /\ rule.grammar = "cronlite"
        /\ Matches(rule, last_read[w])
        /\ now = last_read[w]
        /\ is_up(rule, now)

\* the rows of the table in which, for every key of the criteria, the cell
\* is the literal `*` or decodes to a value equal to the criterion
MatchingRows(table, criteria) ==
    {i \in DOMAIN table :
        \A k \in DOMAIN criteria :
            \/ table[i][k] = <<"*">>
            \/ equals(decode_cell(table[i][k]), criteria[k])}

\* the rows of M in a table, in file order, with the columns asked for decoded
RECURSIVE InFileOrder(_, _)
InFileOrder(table, M) ==
    IF M = {} THEN <<>>
    ELSE LET last == CHOOSE i \in M : \A j \in M : j <= i
         IN  Append(InFileOrder(table, M \ {last}),
                    (LABEL_PARELLEL_PROCESSES :> decode_cell(table[last].parallelProcesses)))

MatchingKeys(properties, name) ==
    {i \in DOMAIN properties :
        /\ Len(properties[i].key) = Len(name)
        /\ \A n \in DOMAIN name : properties[i].key[n] = name[n] \/ properties[i].key[n] = "*"}

\* the number of `*` parts of the key at position i
Stars(properties, i) ==
    Cardinality({n \in DOMAIN properties[i].key : properties[i].key[n] = "*"})

\* those of the positions M whose key has the fewest `*` parts
Fewest(properties, M) ==
    {i \in M : \A j \in M : Stars(properties, i) <= Stars(properties, j)}

\* C23 as written: the lookup of a key with k parts considers only stored
\* keys with k parts in which every part equals the requested part or is
\* `*`, and returns the value of the matching key with the fewest wildcard
\* parts; no two distinct matching keys tie on wildcard count.
C23_NoTies ==
    returned # NoValue =>
        LET properties == properties_manager["w1"].properties
            M == MatchingKeys(properties, returned.criteria)
        IN  /\ M = {} <=> returned.value = NoProperty
            /\ \A i \in Fewest(properties, M) :
                  returned.value.value = properties[i].property.value
            /\ \A i, j \in M : i # j => Stars(properties, i) # Stars(properties, j)

\* C23: the lookup of a key with k parts considers only stored keys with k
\* parts in which every part equals the requested part or is `*`, and
\* returns the value of a matching key with the fewest wildcard parts:
\* when several matching keys tie on that count, the one loaded first.
C23_FewestWildcards ==
    returned # NoValue =>
        LET properties == properties_manager["w1"].properties
            M == MatchingKeys(properties, returned.criteria)
            F == Fewest(properties, M)
        IN  /\ M = {} <=> returned.value = NoProperty
            /\ M # {} =>
                  returned.value = properties[CHOOSE i \in F : \A j \in F : i <= j].property

\* `a.b` was looked up among a key with two wildcards loaded first and two
\* keys with one wildcard each, of different values
C23_TiedKeys ==
    LET properties == properties_manager["w1"].properties
    IN  /\ returned # NoValue
        /\ returned.criteria = <<"a", "b">>
        /\ Len(properties) = 3
        /\ properties[1].key = <<"*", "*">>
        /\ properties[2].key = <<"*", "b">>
        /\ properties[3].key = <<"a", "*">>
        /\ properties[2].property.value # properties[3].property.value
        /\ returned.value = properties[2].property

\* C24: for every Activity value (with or without retry_time), writing it
\* and decoding the resulting path with Activity.from_file yields an
\* Activity with the same type, creation_time, id, retries, retry_time,
\* state and data.
C24_RoundTrip ==
    (returned # NoValue /\ returned.call = "from_file") => returned.value = returned.criteria

\* the activity files a step has written anew
Minted == IF created' > created THEN {f \in files' : ~is_file(PathOf(f), files)} ELSE {}

\* C25: every id minted by create_activities, whether the call comes from a
\* bootstrap rule, from the error hook or from a processor, differs from the
\* id of every activity the Orchestrator tracks at that moment.
C25_MintedIdsUntracked ==
    [][\A f \in Minted : \A w \in orchestrators : f.id \notin TrackedIds(tracked[w])]_vars

\* the submissions a step hands to the pools
Submitted == (Len(tasks) + 1)..Len(tasks')

\* C26: after the Orchestrator submits an activity to the pool, it does not
\* submit the same activity again before the pool task of the earlier
\* submission has renamed the file into IN_PROGRESS or abandoned it, however
\* long that task waits in the pool queue.
C26_NoResubmission ==
    [][\A j \in Submitted : \A k \in DOMAIN tasks :
          (tasks[k].w = tasks'[j].w /\ tasks[k].pc \in {"queued", "take"})
              => tasks[k].h.key # tasks'[j].h.key]_vars

\* C27: an activity moves from IN_PROGRESS back to TO_BE_PROCESSED only as
\* part of a retry: every such move follows, in the same disposition, the
\* set_retry that incremented its retries field by one, for every ExitState
\* built by the helper constructors with their default arguments.
C27_BackOnlyAsRetry ==
    [][/\ \A f \in files \ files', g \in files' \ files :
             (/\ unique_key(f) = unique_key(g)
              /\ f.state = IN_PROGRESS
              /\ g.state = TO_BE_PROCESSED)
                 => \E k \in DOMAIN tasks : /\ tasks[k].pc = "move"
                                            /\ tasks[k].h.file = PathOf(f)
       /\ \A k \in DOMAIN tasks :
             (Len(tasks') = Len(tasks) /\ tasks[k].pc # "move" /\ tasks'[k].pc = "move")
                 => tasks'[k].h.file.retries = tasks[k].h.file.retries + 1]_vars

\* the mark a handle of worker w for the activity of handle h carried
\* before the step, 0 when the activity was not tracked
MarkBefore(w, h) ==
    IF \E i \in DOMAIN tracked[w] : tracked[w][i].key = h.key
    THEN tracked[w][CHOOSE i \in DOMAIN tracked[w] : tracked[w][i].key = h.key].delay
    ELSE 0

\* G: the activities of type t that w tracks in TO_BE_PROCESSED in its pass,
\* neither marked as scheduled less than 10 s ago nor with a retry time ahead
Schedulable(w, t) ==
    {i \in DOMAIN tracked'[w] :
        /\ tracked'[w][i].file.state = TO_BE_PROCESSED
        /\ tracked'[w][i].file.type = t
        /\ MarkBefore(w, tracked'[w][i]) <= now
        /\ tracked'[w][i].file.rtime = NoTime \/ tracked'[w][i].file.rtime <= now}

\* A: the cap of type t less the activities of type t that w tracks in
\* IN_PROGRESS in its pass
Available(w, t) ==
    allowed_parallel_processes(t, w)
    - Cardinality({i \in DOMAIN tracked'[w] : /\ tracked'[w][i].file.state = IN_PROGRESS
                                              /\ tracked'[w][i].file.type = t})

GlobMatches(h, fs) == {PathOf(f) : f \in {g \in fs : unique_key(g) = h.key}}

\* the pool task of submission k ended on FileNotFoundError in this step
LostTrack(k) == Len(tasks') < Len(tasks) \/ tasks'[k].pc = "returned"

\* C30: resynchronisation of a TrackedActivity: when the recorded path still
\* exists nothing changes; when it does not, the handle's path becomes a file
\* matching <unique_key>*.json under the root with the highest retries among
\* all matches, and the operation fails with FileNotFoundError if and only if
\* no file matches.  Stated of the resynchronisation a pool task begins with.
C30_Resynchronised ==
    [][\A k \in DOMAIN tasks :
          (tasks[k].pc = "queued" /\ task_begin(k)) =>
              IF is_file(tasks[k].h.file, files)
              THEN ~LostTrack(k) /\ tasks'[k].h = tasks[k].h
              ELSE IF GlobMatches(tasks[k].h, files) = {}
              THEN LostTrack(k)
              ELSE /\ ~LostTrack(k)
                   /\ tasks'[k].h.file \in GlobMatches(tasks[k].h, files)
                   /\ \A m \in GlobMatches(tasks[k].h, files) :
                         m.retries <= tasks'[k].h.file.retries]_vars

\* a pool task has begun with a handle that resynchronisation moved to the
\* retried file, an older file of the same key being there too
C30_MovedToHighest ==
    \E k \in DOMAIN tasks :
        /\ tasks[k].pc = "take"
        /\ tasks[k].h.file.state # TO_BE_PROCESSED
        /\ \E m \in GlobMatches(tasks[k].h, files) : m.retries < tasks[k].h.file.retries


\* C31: after resynchronize_tracked_activities the tracked map contains
\* exactly the previously tracked entries for which some activity file with
\* that unique key still exists under the root; an entry is dropped if and
\* only if its recorded path vanished and no file matches its unique key.
\* Stated of the sweep on every tracked map and directory that are reached.
C31_SweepKeepsExisting ==
    \A w \in orchestrators :
        \A tr \in resynchronize_tracked_activities(tracked[w], files, logs) :
            /\ \A j \in DOMAIN tr :
                  /\ GlobMatches(tr[j], files) # {}
                  /\ \E i \in DOMAIN tracked[w] : tracked[w][i].key = tr[j].key
            /\ \A i \in DOMAIN tracked[w] :
                  /\ (\E j \in DOMAIN tr : tr[j].key = tracked[w][i].key)
                        <=> GlobMatches(tracked[w][i], files) # {}
                  /\ (~\E j \in DOMAIN tr : tr[j].key = tracked[w][i].key)
                        <=> /\ ~is_file(tracked[w][i].file, files)
                            /\ GlobMatches(tracked[w][i], files) = {}

\* the Orchestrator tracks two activities; the file of one was removed by
\* its pool task, the file of the other is there
C31_OneRemovedOneKept ==
    \E i, j \in DOMAIN tracked["w1"] :
        /\ "w1" \in orchestrators
        /\ GlobMatches(tracked["w1"][i], files) = {}
        /\ GlobMatches(tracked["w1"][j], files) # {}


\* the pool hands the end of submission k to on_activity_processing_error
\* with an exception, on which the hook creates the handler activity
HookCalled(k) == Len(tasks') = Len(tasks) /\ tasks'[k].pc = "returned"

\* the activity file of submission k is in ERROR after this step
EndsInError(k) == is_file([tasks[k].h.file EXCEPT !.state = ERROR], files')

\* C32: when the two on-activity-error properties are configured for a type
\* and the handler type is handled, a handler activity is created for every
\* activity of that type that ends in error, both when the processor raises
\* and when it returns normally with an exit state that puts the activity in
\* ERROR: in both cases the hook is called with what it needs to create it.
C32_HandlerForEveryError ==
    [][\A k \in DOMAIN tasks :
          (/\ tasks[k].pc = "execute"
           /\ HandlerActivityType(tasks[k].type) \in handled_activity_types(tasks[k].w)
           /\ EndsInError(k))
              => /\ task_execute_raises(k) => HookCalled(k)
                 /\ \A e \in ExitStates :
                       (e.next_activity_status = ERROR /\ task_execute(k, e))
                           => HookCalled(k)]_vars

\* C33: for every expression that from_expression accepts, every
\* computation of the next fire time (at construction and in each
\* mark_executed) terminates after a bounded number of field-advance steps:
\* the computation that follows the execution of a built rule returns within
\* MaxAdvance passes of the loop, and no caller is left waiting for one.
C33_NextFireTimeTerminates ==
    \A w \in Workers :
        /\ return_code[w] # Raised("loops")
        /\ \A i \in DOMAIN rules[w] :
              next_datetime_generator(rules[w][i], rules[w][i].next_execution).status = "ok"

\* a cycle of the main loop of w was run to its end in this step
Cycled(w) == w \in orchestrators /\ run(w) /\ w \in orchestrators'

\* C34: after each resynchronize_tracked_activities sweep, every entry of
\* the Orchestrator's tracked map refers to an activity that is in
\* TO_BE_PROCESSED or IN_PROGRESS; activities that reached PROCESSED, ERROR
\* or IGNORED are no longer tracked.
C34_TracksOnlyLiveActivities ==
    [][\A w \in Workers :
          Cycled(w) =>
              \A j \in DOMAIN tracked'[w] :
                  tracked'[w][j].file.state \in {TO_BE_PROCESSED, IN_PROGRESS}]_vars

\* C35: in a process_tbp_activities pass, a failure to resolve the
\* parallelism cap for one activity type (no activity-processing row
\* matching that type together with this worker's id) does not prevent
\* activities of the other types from being dispatched in the same pass:
\* a type whose cap resolves, with an activity to schedule and room under
\* its cap, has an activity submitted.
C35_OtherTypesDispatched ==
    [][\A w \in Workers :
          Cycled(w) =>
              \A t \in handled_activity_types(w) :
                  (/\ ~NoRuleMatch(t, w)
                   /\ Schedulable(w, t) # {}
                   /\ Available(w, t) > 0)
                      => \E j \in Submitted : tasks'[j].type = t]_vars

\* C36: after the scan step of process_tbp_activities, every activity file
\* of a handled type present in TO_BE_PROCESSED at the scan is tracked by
\* the Orchestrator, including when two such files have the same id but
\* different type or creation_time, or when a file's id equals the id of an
\* already tracked activity.
C36_EveryWaitingFileTracked ==
    [][\A w \in Workers :
          Cycled(w) =>
              \A f \in files' :
                  (f.state = TO_BE_PROCESSED /\ f.type \in handled_activity_types(w))
                      => \E j \in DOMAIN tracked'[w] : tracked'[w][j].key = unique_key(f)]_vars

\* the path in IN_PROGRESS of the activity file submission k holds or takes
InProgressPath(k) == [tasks[k].h.file EXCEPT !.state = IN_PROGRESS]

\* the processor call of submission k has returned or raised and the task
\* ends in this step: the activity file it held is not in IN_PROGRESS
\* afterwards
LeavesInProgress(k) ==
    (tasks[k].pc \in {"execute", "move"} /\ Finished(k))
        => ~is_file(InProgressPath(k), files')

\* submission k reports in this step that it failed to take ownership: it
\* has put no activity file in IN_PROGRESS
FailedTakeLeavesNothing(k) ==
    (tasks[k].pc = "take" /\ task_take(k) /\ ~Taken(k))
        => (is_file(InProgressPath(k), files') => is_file(InProgressPath(k), files))

\* C37: every activity that a pool task has moved into IN_PROGRESS leaves
\* IN_PROGRESS (is moved to its next state or removed) once its processor
\* call returns an ExitState or raises, for every retry count and in every
\* interleaving with the Orchestrator's resynchronization of its own handle;
\* and no pool task leaves an activity in IN_PROGRESS while reporting that
\* it failed to take ownership.
C37_NothingStaysInProgress ==
    [][\A k \in DOMAIN tasks : LeavesInProgress(k) /\ FailedTakeLeavesNothing(k)]_vars

\* the attached_files list of handle h, the attached files being lg: every
\* path names an existing file in the state directory of the activity file
\* and no attachment is listed under two directories
AttachedInPlace(h, lg) ==
    /\ \A i \in DOMAIN h.att : h.att[i] \in lg /\ h.att[i].state = h.file.state
    /\ \A i, j \in DOMAIN h.att :
          i # j => LogIn(h.att[i], h.file.state) # LogIn(h.att[j], h.file.state)

\* C38: after any resynchronization of a TrackedActivity, every path in its
\* attached_files list names an existing file located in the same state
\* directory as the activity file, and no attachment is listed more than
\* once (under an old and a new directory).  Stated of the handles the main
\* loop resynchronises in a cycle and of the one a pool task begins with.
C38_AttachedFilesInPlace ==
    [][/\ \A w \in Workers :
             Cycled(w) => \A j \in DOMAIN tracked'[w] : AttachedInPlace(tracked'[w][j], logs')
       /\ \A k \in DOMAIN tasks :
             (tasks[k].pc = "queued" /\ task_begin(k) /\ ~LostTrack(k))
                 => AttachedInPlace(tasks'[k].h, logs')]_vars

\* what an activity file keeps through a rename: type, creation_time, id
\* and data
Identity(f) == <<f.type, f.ctime, f.id, f.data>>

\* the step left the activity files as they were or renamed one of them,
\* none being created or deleted: the pairs [from, to] of the rename
Renames ==
    {r \in [from : files, to : files'] :
        /\ files' = (files \ {r.from}) \cup {r.to}
        /\ r.to \notin files
        /\ Cardinality(files') = Cardinality(files)
        /\ Identity(r.to) = Identity(r.from)}

\* change_state: only the directory changes
OnlyDirectory ==
    /\ files' = files \/ \E r \in Renames : r.to = [r.from EXCEPT !.state = r.to.state]
    /\ \A l \in logs : \E m \in logs' : LogIn(m, l.state) = l

\* set_retry with delay d: only retries, by one, and retry_time when d > 0
OnlyRetry(d) ==
    /\ files' = files
       \/ \E r \in Renames :
             r.to = [r.from EXCEPT !.retries = @ + 1,
                                   !.rtime = IF d > 0 THEN now + d ELSE @]
    /\ logs' = logs

\* C39: change_state and set_retry preserve an activity's type,
\* creation_time, id and data: change_state changes only the directory of
\* the activity file and of its attachments, and set_retry changes only the
\* retries field (by exactly +1) and, when the delay is positive, the
\* retry_time; neither creates or deletes an activity file.
C39_RenamesOnly ==
    [][\A k \in DOMAIN tasks :
          /\ (tasks[k].pc = "take" /\ task_take(k)) => OnlyDirectory
          /\ (tasks[k].pc = "move" /\ task_move(k)) => OnlyDirectory
          /\ (tasks[k].pc = "execute" /\ task_execute_raises(k)) => OnlyDirectory
          /\ \A e \in ExitStates :
                (tasks[k].pc = "execute" /\ task_execute(k, e) /\ ~remove_activity(e))
                    => IF e.status = ERROR_RETRY
                       THEN OnlyRetry(e.retry_delay_s)
                       ELSE OnlyDirectory]_vars

\* C40: for every accepted rule expression, each mark_executed strictly
\* increases next_execution, so a bootstrap rule cannot fire twice for the
\* same scheduled instant and fires at most once per main-loop cycle: for
\* every rule that was built, the next_execution its generator returns
\* after an execution is later than the one it had.
C40_StrictlyLater ==
    \A w \in Workers : \A i \in DOMAIN rules[w] :
        next_datetime_generator(rules[w][i], rules[w][i].next_execution).status = "ok"
            => mark_executed(rules[w][i]).next_execution > rules[w][i].next_execution

====
